---- MODULE Spec2Model ----
(***************************************************************************)
(* Article documenter: the article / property store and the handlers that  *)
(* act on it (createArticle, updateArticle, deleteArticle, getArticleById). *)
(* Each handler is a sequence of store statements; a statement is one      *)
(* atomic step, and the statements of concurrent calls interleave.         *)
(***************************************************************************)
EXTENDS Integers, Sequences, FiniteSets, Bags, TLC

\* ------------------------------------------------------------------ bounds
MaxArticles == 2
MaxProps == 2
MaxTime == 1
MaxCalls == 3
MaxDialogCalls == 3
MaxClicks == 6

\* ------------------------------------------------------------------ inputs
Procs == {"c1", "c2"}

Titles == {"A", "B"}
Contents == {"", "<p>x</p>"}
PropertyPairs ==
  { [property_name |-> "Author", property_value |-> "Ann"],
    [property_name |-> "Author", property_value |-> ""] }

PropertyLists == UNION { [1..n -> PropertyPairs] : n \in 0..MaxProps }

\* an optional field of an input: absent (undefined) or present with a value
Undefined == << >>
Some(v) == << v >>
IsDefined(o) == o # Undefined
Optional(S) == {Undefined} \cup { Some(v) : v \in S }

\* the ids a request may name: every id the store can assign (before it is assigned
\* and after its article is deleted, such an id matches no stored article)
RequestIds == 1..MaxArticles

CreateInputs == [title : Titles, content : Contents, properties : PropertyLists]
UpdateInputs ==
  [id : RequestIds, title : Optional(Titles), content : Optional(Contents),
   properties : Optional(PropertyLists)]

VARIABLES
  articles,            \* rows of the articles table
  article_properties,  \* rows of the article_properties table: a bag of rows, the serial
                       \* id and created_at of a row, which no handler returns, left out
  article_seq,         \* last value of the serial articles.id
  clock,               \* the wall clock read by new Date() and by defaultNow()
  calls,               \* how many calls have started
  pc,                  \* per call: the statement the handler is about to run
  input,               \* per call: the handler's input
  local,               \* per call: the handler's local values
  response,            \* what the call that finished in the last step returned or threw
  files,               \* the files of the exports directory
  editor,              \* the client's PropertyManager: the list it edits and its form
  dialog,              \* the client's ExportDialog: its format, its selection, its result
  app,                 \* the client's App: the articles it loaded, its tab, the article
                       \* it edits, its flags
  awaiting,            \* the awaits of the client's handlers that are outstanding, each
                       \* with the answer of its call once the server has returned it
  clicks               \* how many times the user has clicked or typed in the page

vars == << articles, article_properties, article_seq, clock, calls,
           pc, input, local, response, files, editor, dialog, app, awaiting, clicks >>
client == << editor, dialog, app >>

store == << articles, article_properties, article_seq >>

\* ------------------------------------------------------------------ store
ArticleIds == { a.id : a \in articles }

\* the row of table A with the given id
ArticleIn(A, id) == CHOOSE a \in A : a.id = id
ArticleRow(id) == ArticleIn(articles, id)

\* a list as a multiset: how often each element occurs
Multiset(s) ==
  [x \in { s[i] : i \in DOMAIN s } |-> Cardinality({ i \in DOMAIN s : s[i] = x })]

\* the rows of table B WHERE article_id = id
PropertiesIn(B, id) == [r \in { x \in BagToSet(B) : x.article_id = id } |-> B[r]]
PropertiesOf(id) == PropertiesIn(article_properties, id)

ToPair(r) == [property_name |-> r.property_name, property_value |-> r.property_value]

\* rows.map(prop => ({property_name, property_value}))
ToPairs(rows) == [i \in 1..Len(rows) |-> ToPair(rows[i])]

\* an insert that keeps one row per property_name (the last), as the editor's upsert does
NewPropertyRowsUpsert(id, ps) ==
  SetToBag({ [article_id |-> id,
              property_name |-> ps[i].property_name,
              property_value |-> ps[i].property_value] :
             i \in { j \in 1..Len(ps) :
                       \A k \in (j + 1)..Len(ps) : ps[k].property_name # ps[j].property_name } })

\* the rows a bulk insert of the list ps for article id adds
NewPropertyRows(id, ps) ==
  Multiset([i \in 1..Len(ps) |->
             [article_id |-> id,
              property_name |-> ps[i].property_name,
              property_value |-> ps[i].property_value]])

\* a schema without the reference: any article_id is accepted
ForeignKeyUnchecked(id) == TRUE

\* article_properties.article_id references articles.id
ForeignKeyHolds(id) == id \in ArticleIds

\* every order in which a select without ORDER BY may enumerate the rows B
RECURSIVE Enumerations(_)
Enumerations(B) ==
  IF B = EmptyBag THEN { << >> }
  ELSE UNION { { << x >> \o s : s \in Enumerations(B (-) SetToBag({x})) } : x \in BagToSet(B) }

\* ------------------------------------------------------------------ calls
NoInput == [op |-> "none"]
NoLocal == [updated_at |-> 0, article |-> Undefined, before |-> EmptyBag, articles |-> << >>]
NoResponse == [kind |-> "none"]

Null == [kind |-> "null"]
Thrown(e) == [kind |-> "error", error |-> e]
Deleted(b) == [kind |-> "deleted", success |-> b]
ArticleWithProperties(a, ps) == [kind |-> "article", article |-> a, properties |-> ps]

Idle(p) == pc[p] = "idle"
AllIdle == \A p \in Procs : Idle(p)

\* who may start a call when calls are served one after the other: one client, and
\* only while no call is in flight
Free == IF AllIdle THEN { CHOOSE p \in Procs : TRUE } ELSE {}

\* a call starts: the handler holds its input and is about to run its first statement
Start(p, in, label) ==
  /\ Idle(p)
  /\ calls' = calls + 1
  /\ input' = [input EXCEPT ![p] = in]
  /\ pc' = [pc EXCEPT ![p] = label]
  /\ response' = NoResponse

Call(p, in, label) ==
  /\ calls < MaxCalls
  /\ Start(p, in, label)
  /\ awaiting' = awaiting
  /\ clicks' = clicks

\* the call ends: r is returned or thrown to the caller
Return(p, r) ==
  /\ calls' = calls
  /\ pc' = [pc EXCEPT ![p] = "idle"]
  /\ input' = [input EXCEPT ![p] = NoInput]
  /\ local' = [local EXCEPT ![p] = NoLocal]
  /\ response' = [proc |-> p, input |-> input[p]] @@ r
  /\ awaiting' = { IF a.proc = p /\ a.answer = Undefined THEN [a EXCEPT !.answer = Some(r)]
                                                          ELSE a : a \in awaiting }
  /\ clicks' = clicks

Goto(p, label) ==
  /\ calls' = calls
  /\ awaiting' = awaiting
  /\ clicks' = clicks
  /\ pc' = [pc EXCEPT ![p] = label]
  /\ input' = input
  /\ response' = NoResponse

\* ------------------------------------------------------------------ Init
Init ==
  /\ articles = {}
  /\ article_properties = EmptyBag
  /\ article_seq = 0
  /\ clock = 0
  /\ calls = 0
  /\ pc = [p \in Procs |-> "idle"]
  /\ input = [p \in Procs |-> NoInput]
  /\ local = [p \in Procs |-> NoLocal]
  /\ response = NoResponse
  /\ files = {}
  /\ editor = [title |-> << >>, content |-> "", properties |-> << >>, isLoading |-> FALSE,
               newPropertyName |-> << >>, newPropertyValue |-> << >>]
  /\ dialog = [exportFormat |-> "html", selectedArticleIds |-> << >>, selectAll |-> TRUE,
               isExporting |-> FALSE, exportResult |-> Null]
  /\ app = [articles |-> << >>, activeTab |-> "toc", editingArticle |-> Undefined,
            isExportDialogOpen |-> FALSE, isLoading |-> TRUE]
  /\ awaiting = {}
  /\ clicks = 0

\* time passes
Tick ==
  /\ clock < MaxTime
  /\ clock' = clock + 1
  /\ response' = NoResponse
  /\ UNCHANGED << store, calls, pc, input, local, files, client, awaiting, clicks >>

\* ------------------------------------------------------------------ validation
\* z.string().min(1) on every property_name of a list
PropertyNamesValid(ps) == \A i \in 1..Len(ps) : Len(ps[i].property_name) >= 1

\* a schema that lets every title pass
CreateArticleInputUnchecked(in) == PropertyNamesValid(in.properties)

\* createArticleInputSchema: title min(1), property_name min(1)
CreateArticleInputValid(in) ==
  /\ Len(in.title) >= 1
  /\ PropertyNamesValid(in.properties)

\* updateArticleInputSchema: title min(1) when supplied, property_name min(1)
UpdateArticleInputValid(in) ==
  /\ IsDefined(in.title) => Len(in.title[1]) >= 1
  /\ IsDefined(in.properties) => PropertyNamesValid(in.properties[1])

\* createArticleInputSchema.parse of a request as sent: content defaults to the
\* empty string and properties to the empty list
ParseCreateArticleInput(raw) ==
  [title |-> raw.title,
   content |-> IF IsDefined(raw.content) THEN raw.content[1] ELSE "",
   properties |-> IF IsDefined(raw.properties) THEN raw.properties[1] ELSE << >>]

\* the procedure's input does not parse: the error goes to the caller, the handler
\* is not called
Reject(p, in) ==
  /\ Idle(p)
  /\ calls < MaxCalls
  /\ calls' = calls + 1
  /\ response' = [proc |-> p, input |-> in] @@ Thrown("ValidationError")
  /\ UNCHANGED << store, clock, files, client, pc, input, local, awaiting, clicks >>

RejectCreateArticle(p, in) ==
  /\ ~CreateArticleInputValid(in)
  /\ Reject(p, [op |-> "createArticle"] @@ in)

RejectUpdateArticle(p, in) ==
  /\ ~UpdateArticleInputValid(in)
  /\ Reject(p, [op |-> "updateArticle"] @@ in)

\* ------------------------------------------------------------------ createArticle
\* the call: the values object is built, new Date() is read
StartCreateArticle(p, in) ==
  /\ CreateArticleInputValid(in)
  /\ article_seq + Cardinality({ q \in Procs : pc[q] = "create_insert_article" }) < MaxArticles
  /\ Start(p, [op |-> "createArticle"] @@ in, "create_insert_article")
  /\ local' = [local EXCEPT ![p].updated_at = clock]
  /\ UNCHANGED << store, clock, files >>

CallCreateArticle(p, in) ==
  /\ calls < MaxCalls
  /\ StartCreateArticle(p, in)
  /\ UNCHANGED << client, awaiting, clicks >>

\* an insert that numbers the new row after the greatest stored id
CreateInsertArticleAfterStored(p) ==
  /\ pc[p] = "create_insert_article"
  /\ LET greatest == IF articles = {} THEN 0
                     ELSE CHOOSE n \in ArticleIds : \A m \in ArticleIds : m <= n
         row == [id |-> greatest + 1,
                 title |-> input[p].title,
                 content |-> input[p].content,
                 created_at |-> clock,
                 updated_at |-> local[p].updated_at]
     IN /\ articles' = articles \cup {row}
        /\ article_seq' = article_seq + 1
        /\ IF Len(input[p].properties) > 0
             THEN /\ Goto(p, "create_insert_properties")
                  /\ local' = [local EXCEPT ![p].article = Some(row)]
             ELSE Return(p, ArticleWithProperties(row, << >>))
  /\ UNCHANGED << article_properties, clock, files, client >>

\* db.insert(articlesTable).values({title, content, updated_at}).returning()
CreateInsertArticle(p) ==
  /\ pc[p] = "create_insert_article"
  /\ LET row == [id |-> article_seq + 1,
                 title |-> input[p].title,
                 content |-> input[p].content,
                 created_at |-> clock,
                 updated_at |-> local[p].updated_at]
     IN /\ articles' = articles \cup {row}
        /\ article_seq' = article_seq + 1
        /\ IF Len(input[p].properties) > 0
             THEN /\ Goto(p, "create_insert_properties")
                  /\ local' = [local EXCEPT ![p].article = Some(row)]
             ELSE Return(p, ArticleWithProperties(row, << >>))
  /\ UNCHANGED << article_properties, clock, files, client >>

\* the call of the procedure with a request as sent; the handler gets the parsed input
\* (the request is kept beside it)
RequestCreateArticle(p, raw) ==
  CallCreateArticle(p, [raw |-> raw] @@ ParseCreateArticleInput(raw))

\* a handler that answers with the properties as a later select enumerates them
CreateInsertPropertiesThenSelect(p) ==
  /\ pc[p] = "create_insert_properties"
  /\ LET article == local[p].article[1]
         rows == NewPropertyRows(article.id, input[p].properties)
     IN IF ForeignKeyHolds(article.id)
             THEN /\ article_properties' = article_properties (+) rows
                  /\ \E properties \in Enumerations(PropertiesIn(article_properties', article.id)) :
                       Return(p, ArticleWithProperties(article, ToPairs(properties)))
             ELSE /\ article_properties' = article_properties
                  /\ Return(p, Thrown("ForeignKeyViolation"))
  /\ UNCHANGED << articles, article_seq, clock, files, client >>

\* db.insert(articlePropertiesTable).values(propertyValues).returning()
CreateInsertProperties(p) ==
  /\ pc[p] = "create_insert_properties"
  /\ LET article == local[p].article[1]
         rows == NewPropertyRows(article.id, input[p].properties)
     IN IF ForeignKeyHolds(article.id)
             THEN /\ article_properties' = article_properties (+) rows
                  /\ Return(p, ArticleWithProperties(article, ToPairs(input[p].properties)))
             ELSE /\ article_properties' = article_properties
                  /\ Return(p, Thrown("ForeignKeyViolation"))
  /\ UNCHANGED << articles, article_seq, clock, files, client >>

\* ------------------------------------------------------------------ deleteArticle
CallDeleteArticle(p, id) ==
  /\ Call(p, [op |-> "deleteArticle", id |-> id], "delete_article")
  /\ UNCHANGED << store, clock, files, client, local >>

\* a delete whose cascade is missing: the article's properties stay
DeleteArticleRowNoCascade(p) ==
  /\ pc[p] = "delete_article"
  /\ LET deleted == { a \in articles : a.id = input[p].id }
     IN /\ articles' = articles \ deleted
        /\ Return(p, Deleted(Cardinality(deleted) > 0))
  /\ UNCHANGED << article_properties, article_seq, clock, files, client >>

\* a delete that reports the row it matched and leaves it stored
DeleteArticleRowKept(p) ==
  /\ pc[p] = "delete_article"
  /\ LET deleted == { a \in articles : a.id = input[p].id }
     IN /\ articles' = articles
        /\ article_properties' = article_properties
        /\ Return(p, Deleted(Cardinality(deleted) > 0))
  /\ UNCHANGED << article_seq, clock, files, client >>

\* the placeholder handler's answer: success whatever was deleted
DeleteArticleRowPlaceholder(p) ==
  /\ pc[p] = "delete_article"
  /\ LET deleted == { a \in articles : a.id = input[p].id }
     IN /\ articles' = articles \ deleted
        /\ article_properties' = article_properties (-) PropertiesOf(input[p].id)
        /\ Return(p, Deleted(TRUE))
  /\ UNCHANGED << article_seq, clock, files, client >>

\* db.delete(articlesTable).where(eq(id)).returning(), with ON DELETE CASCADE
DeleteArticleRow(p) ==
  /\ pc[p] = "delete_article"
  /\ LET deleted == { a \in articles : a.id = input[p].id }
     IN /\ articles' = articles \ deleted
        /\ article_properties' = article_properties (-) PropertiesOf(input[p].id)
        /\ Return(p, Deleted(Cardinality(deleted) > 0))
  /\ UNCHANGED << article_seq, clock, files, client >>

\* ------------------------------------------------------------------ updateArticle
\* the call: updateValues is built, new Date() is read
\* (the handler has two implementations in the source: this one, which updates first,
\* and one that selects the article first and reads new Date() after that select)
UpdateImplementations == {"update", "select_update"}

StartUpdateArticle(p, in, impl) ==
  /\ UpdateArticleInputValid(in)
  /\ Start(p, [op |-> "updateArticle"] @@ in,
           IF impl = "update" THEN "update_set" ELSE "update_select_existing")
  /\ local' = [local EXCEPT ![p].updated_at = clock,
                            ![p].before = PropertiesOf(in.id)]
  /\ UNCHANGED << store, clock, files >>

CallUpdateArticle(p, in, impl) ==
  /\ calls < MaxCalls
  /\ StartUpdateArticle(p, in, impl)
  /\ UNCHANGED << client, awaiting, clicks >>

\* the placeholder handler's row: omitted fields fall back to fixed values
UpdatedRowPlaceholder(a, in, now) ==
  [a EXCEPT !.title = IF IsDefined(in.title) THEN in.title[1] ELSE "Updated Article",
            !.content = IF IsDefined(in.content) THEN in.content[1] ELSE "",
            !.created_at = now,
            !.updated_at = now]

\* the row a.id after db.update(articlesTable).set(updateValues)
UpdatedRow(a, in, now) ==
  [a EXCEPT !.title = IF IsDefined(in.title) THEN in.title[1] ELSE @,
            !.content = IF IsDefined(in.content) THEN in.content[1] ELSE @,
            !.updated_at = now]

\* an update that does not look at the number of rows it changed
UpdateArticleSetUnchecked(p) ==
  /\ pc[p] = "update_set"
  /\ LET matched == { a \in articles : a.id = input[p].id }
         rows == { UpdatedRow(a, input[p], local[p].updated_at) : a \in matched }
         fabricated == [id |-> input[p].id, title |-> "Updated Article", content |-> "",
                        created_at |-> local[p].updated_at,
                        updated_at |-> local[p].updated_at]
     IN /\ articles' = (articles \ matched) \cup rows
        /\ local' = [local EXCEPT ![p].article =
                       Some(IF rows = {} THEN fabricated ELSE CHOOSE r \in rows : TRUE)]
        /\ Goto(p, IF IsDefined(input[p].properties)
                     THEN "update_delete_properties"
                     ELSE "update_select_properties")
  /\ UNCHANGED << article_properties, article_seq, clock, files, client >>

\* db.update(articlesTable).set(updateValues).where(eq(id)).returning()
UpdateArticleSet(p) ==
  /\ pc[p] = "update_set"
  /\ IF input[p].id \notin ArticleIds
       THEN /\ articles' = articles
            /\ Return(p, Thrown("NotFound"))
       ELSE LET row == UpdatedRow(ArticleRow(input[p].id), input[p], local[p].updated_at)
            IN /\ articles' = (articles \ {ArticleRow(input[p].id)}) \cup {row}
               /\ local' = [local EXCEPT ![p].article = Some(row)]
               /\ Goto(p, IF IsDefined(input[p].properties)
                            THEN "update_delete_properties"
                            ELSE "update_select_properties")
  /\ UNCHANGED << article_properties, article_seq, clock, files, client >>

\* an update that skips the delete: the new properties are added to the old
UpdateKeepProperties(p) ==
  /\ pc[p] = "update_delete_properties"
  /\ Goto(p, IF Len(input[p].properties[1]) > 0
               THEN "update_insert_properties"
               ELSE "update_select_properties")
  /\ UNCHANGED << store, clock, files, client, local >>

\* db.delete(articlePropertiesTable).where(eq(article_id, input.id))
UpdateDeleteProperties(p) ==
  /\ pc[p] = "update_delete_properties"
  /\ article_properties' = article_properties (-) PropertiesOf(input[p].id)
  /\ Goto(p, IF Len(input[p].properties[1]) > 0
               THEN "update_insert_properties"
               ELSE "update_select_properties")
  /\ UNCHANGED << articles, article_seq, clock, files, client, local >>

\* db.insert(articlePropertiesTable).values(input.properties.map(...))
UpdateInsertProperties(p) ==
  /\ pc[p] = "update_insert_properties"
  /\ IF ForeignKeyHolds(input[p].id)
       THEN /\ article_properties' =
                 article_properties (+) NewPropertyRows(input[p].id, input[p].properties[1])
            /\ Goto(p, "update_select_properties")
            /\ local' = local
       ELSE /\ article_properties' = article_properties
            /\ Return(p, Thrown("ForeignKeyViolation"))
  /\ UNCHANGED << articles, article_seq, clock, files, client >>

\* db.select().from(articlePropertiesTable).where(eq(article_id, input.id)), and the return
UpdateSelectProperties(p) ==
  /\ pc[p] = "update_select_properties"
  /\ \E currentProperties \in Enumerations(PropertiesOf(input[p].id)) :
       Return(p, ArticleWithProperties(local[p].article[1], ToPairs(currentProperties)))
  /\ UNCHANGED << store, clock, files, client >>

\* a statement of createArticle or updateArticle is refused by the database (the
\* connection is lost, the server reports an error): the awaited call rejects, the catch
\* block logs and rethrows, and what the earlier statements wrote stays written, the
\* handlers opening no transaction
WriteStatements ==
  {"create_insert_article", "create_insert_properties", "update_set",
   "update_delete_properties", "update_insert_properties", "update_select_properties",
   "update_select_existing", "update_existing_set", "update_existing_delete_properties",
   "update_existing_insert_properties", "update_select_join"}

StatementFails(p) ==
  /\ pc[p] \in WriteStatements
  /\ Return(p, Thrown("DatabaseError"))
  /\ UNCHANGED << store, clock, files, client >>

\* ------------------------------------------------------------------ getArticleById
\* the handler has two implementations in the source: one join, or two selects
CallGetArticleById(p, id, impl) ==
  /\ Call(p, [op |-> "getArticleById", id |-> id],
          IF impl = "join" THEN "get_join" ELSE "get_select_article")
  /\ UNCHANGED << store, clock, files, client, local >>

\* the rows of articles LEFT JOIN article_properties WHERE articles.id = id
JoinRows(id) ==
  LET matched == { x \in articles : x.id = id }
      props == PropertiesOf(id)
      joined == { [articles |-> a, article_properties |-> Some(r)] :
                    a \in matched, r \in BagToSet(props) }
      unjoined == { [articles |-> a, article_properties |-> Undefined] : a \in matched }
  IN IF props = EmptyBag
       THEN SetToBag(unjoined)
       ELSE [row \in joined |-> props[row.article_properties[1]]]

IsPropertyRow(row) == IsDefined(row.article_properties)
JoinedPair(row) == ToPair(row.article_properties[1])
JoinedPairs(rows) == [i \in 1..Len(rows) |-> JoinedPair(rows[i])]

\* the placeholder handler's answer: null whatever is stored
GetArticleByIdResultPlaceholder(results) == Null

\* what getArticleById makes of the joined rows
GetArticleByIdResult(results) ==
  IF Len(results) = 0 THEN Null
  ELSE ArticleWithProperties(results[1].articles,
                             JoinedPairs(SelectSeq(results, IsPropertyRow)))

GetArticleByIdJoin(p) ==
  /\ pc[p] = "get_join"
  /\ \E results \in Enumerations(JoinRows(input[p].id)) :
       Return(p, GetArticleByIdResult(results))
  /\ UNCHANGED << store, clock, files, client >>

\* db.select().from(articlesTable).where(eq(id))
GetArticleByIdSelectArticle(p) ==
  /\ pc[p] = "get_select_article"
  /\ IF input[p].id \notin ArticleIds
       THEN Return(p, Null)
       ELSE /\ local' = [local EXCEPT ![p].article = Some(ArticleRow(input[p].id))]
            /\ Goto(p, "get_select_properties")
  /\ UNCHANGED << store, clock, files, client >>

\* db.select().from(articlePropertiesTable).where(eq(article_id, id))
GetArticleByIdSelectProperties(p) ==
  /\ pc[p] = "get_select_properties"
  /\ \E properties \in Enumerations(PropertiesOf(input[p].id)) :
       Return(p, ArticleWithProperties(local[p].article[1], ToPairs(properties)))
  /\ UNCHANGED << store, clock, files, client >>

\* a statement of getArticleById is refused by the database: the catch logs the error
\* and rethrows it
GetArticleByIdFails(p) ==
  /\ pc[p] \in {"get_join", "get_select_article", "get_select_properties"}
  /\ Return(p, Thrown("DatabaseError"))
  /\ UNCHANGED << store, clock, files, client >>

\* ------------------------------------------------------------------ updateArticle,
\* the implementation that selects first
\* db.select().from(articlesTable).where(eq(id)): not found is thrown from here; then
\* updateData is built, new Date() is read
UpdateSelectExisting(p) ==
  /\ pc[p] = "update_select_existing"
  /\ IF input[p].id \notin ArticleIds
       THEN Return(p, Thrown("NotFound"))
       ELSE /\ local' = [local EXCEPT ![p].updated_at = clock]
            /\ Goto(p, "update_existing_set")
  /\ UNCHANGED << store, clock, files, client >>

\* db.update(articlesTable).set(updateData).where(eq(id)).returning(): updatedArticles[0]
\* is taken as it is, undefined when the row is gone since the select
UpdateExistingArticleSet(p) ==
  /\ pc[p] = "update_existing_set"
  /\ LET matched == { a \in articles : a.id = input[p].id }
         rows == { UpdatedRow(a, input[p], local[p].updated_at) : a \in matched }
     IN /\ articles' = (articles \ matched) \cup rows
        /\ local' = [local EXCEPT ![p].article =
                       IF rows = {} THEN Undefined ELSE Some(CHOOSE r \in rows : TRUE)]
        /\ Goto(p, IF IsDefined(input[p].properties)
                     THEN "update_existing_delete_properties"
                     ELSE "update_select_join")
  /\ UNCHANGED << article_properties, article_seq, clock, files, client >>

\* db.delete(articlePropertiesTable).where(eq(article_id, input.id))
UpdateExistingDeleteProperties(p) ==
  /\ pc[p] = "update_existing_delete_properties"
  /\ article_properties' = article_properties (-) PropertiesOf(input[p].id)
  /\ Goto(p, IF Len(input[p].properties[1]) > 0
               THEN "update_existing_insert_properties"
               ELSE "update_select_join")
  /\ UNCHANGED << articles, article_seq, clock, files, client, local >>

\* db.insert(articlePropertiesTable).values(input.properties.map(...))
UpdateExistingInsertProperties(p) ==
  /\ pc[p] = "update_existing_insert_properties"
  /\ IF ForeignKeyHolds(input[p].id)
       THEN /\ article_properties' =
                 article_properties (+) NewPropertyRows(input[p].id, input[p].properties[1])
            /\ Goto(p, "update_select_join")
            /\ local' = local
       ELSE /\ article_properties' = article_properties
            /\ Return(p, Thrown("ForeignKeyViolation"))
  /\ UNCHANGED << articles, article_seq, clock, files, client >>

\* the select of articles LEFT JOIN article_properties, the rows with a property name
\* mapped to the properties, and the return of updatedArticle's fields: a TypeError when
\* updatedArticle is undefined
UpdateSelectJoin(p) ==
  /\ pc[p] = "update_select_join"
  /\ \E articleWithProperties \in Enumerations(JoinRows(input[p].id)) :
       IF IsDefined(local[p].article)
         THEN Return(p, ArticleWithProperties(
                          local[p].article[1],
                          JoinedPairs(SelectSeq(articleWithProperties, IsPropertyRow))))
         ELSE Return(p, Thrown("TypeError"))
  /\ UNCHANGED << store, clock, files, client >>

\* ------------------------------------------------------------------ getArticles
CallGetArticles(p) ==
  /\ Call(p, [op |-> "getArticles"], "get_articles")
  /\ UNCHANGED << store, clock, files, client, local >>

\* the rows of articles LEFT JOIN article_properties, for every article
AllJoinRows ==
  LET Rows(id) == JoinRows(id)
      joined == UNION { BagToSet(Rows(id)) : id \in ArticleIds }
  IN [row \in joined |-> Rows(row.articles.id)[row]]

\* a test that takes an empty value for a missing one
HasPropertyTruthy(row) ==
  /\ IsDefined(row.article_properties)
  /\ Len(row.article_properties[1].property_name) # 0
  /\ Len(row.article_properties[1].property_value) # 0

\* row.property_id && row.property_name && row.property_value !== null
HasProperty(row) ==
  /\ IsDefined(row.article_properties)
  /\ Len(row.article_properties[1].property_name) # 0

\* where the article id has its entry in the map's insertion order, 0 when it has none
EntryOf(entries, id) ==
  IF \E k \in 1..Len(entries) : entries[k].id = id
    THEN CHOOSE k \in 1..Len(entries) : entries[k].id = id
    ELSE 0

\* results.forEach(row => ...) from row i on: the map's values in insertion order
RECURSIVE GroupRows(_, _, _)
GroupRows(results, i, entries) ==
  IF i > Len(results) THEN entries
  ELSE LET row == results[i]
           added == IF EntryOf(entries, row.articles.id) = 0
                      THEN Append(entries, [id |-> row.articles.id,
                                            article |-> row.articles,
                                            properties |-> << >>])
                      ELSE entries
           k == EntryOf(added, row.articles.id)
           pushed == IF HasProperty(row)
                       THEN [added EXCEPT ![k].properties = Append(@, JoinedPair(row))]
                       ELSE added
       IN GroupRows(results, i + 1, pushed)

GetArticlesResult(results) == [kind |-> "articles", articles |-> GroupRows(results, 1, << >>)]

GetArticlesJoin(p) ==
  /\ pc[p] = "get_articles"
  /\ \E results \in Enumerations(AllJoinRows) : Return(p, GetArticlesResult(results))
  /\ UNCHANGED << store, clock, files, client >>

\* ------------------------------------------------------------------ exportArticles
\* A text of the document is a sequence of characters, each a string of length one.
\* const escapeMap = {'&': '&amp;', '<': '&lt;', '>': '&gt;', '"': '&quot;', "'": '&#39;'}
EscapedCharacters == {"&", "<", ">", "\"", "'"}

\* a map that forgets the apostrophe
escapeMapWithoutApostrophe(match) ==
  CASE match = "&" -> << "&", "a", "m", "p", ";" >>
    [] match = "<" -> << "&", "l", "t", ";" >>
    [] match = ">" -> << "&", "g", "t", ";" >>
    [] match = "\"" -> << "&", "q", "u", "o", "t", ";" >>
    [] match = "'" -> << "'" >>

escapeMap(match) ==
  CASE match = "&" -> << "&", "a", "m", "p", ";" >>
    [] match = "<" -> << "&", "l", "t", ";" >>
    [] match = ">" -> << "&", "g", "t", ";" >>
    [] match = "\"" -> << "&", "q", "u", "o", "t", ";" >>
    [] match = "'" -> << "&", "#", "3", "9", ";" >>

\* text.replace(/[&<>"']/g, match => escapeMap[match])
RECURSIVE ReplaceEscaped(_)
ReplaceEscaped(text) ==
  IF text = << >> THEN << >>
  ELSE (IF Head(text) \in EscapedCharacters THEN escapeMap(Head(text)) ELSE << Head(text) >>)
         \o ReplaceEscaped(Tail(text))

\* div is a plain object: setting div.textContent leaves div.innerHTML the empty
\* string, so the replace is what escapeHtml returns
escapeHtml(text) ==
  LET innerHTML == << >>
  IN IF innerHTML # << >> THEN innerHTML ELSE ReplaceEscaped(text)

\* The document, as the values its template is filled with: the entries of the table
\* of contents and the article sections, in the order they are written.
\* <li><a href="#article-${article.id}">${escapeHtml(article.title)}</a></li>
TocEntry(article) == [href |-> article.id, title |-> escapeHtml(article.title)]

\* <li><strong>${escapeHtml(name)}:</strong> ${escapeHtml(value) || '/'}</li>
PropertyItem(prop) ==
  [name |-> escapeHtml(prop.property_name),
   value |-> IF escapeHtml(prop.property_value) # << >>
               THEN escapeHtml(prop.property_value)
               ELSE << "/" >>]

\* a section whose content is escaped like its title
ArticleSectionEscapedContent(article) ==
  [id |-> article.id,
   title |-> escapeHtml(article.title),
   created |-> article.created_at,
   updated |-> article.updated_at,
   properties |-> [k \in 1..Len(article.properties) |-> PropertyItem(article.properties[k])],
   content |-> escapeHtml(article.content)]

\* <article id="article-${article.id}">: title, metadata, the properties block (none
\* when the article has no property), the content as it is stored
ArticleSection(article) ==
  [id |-> article.id,
   title |-> escapeHtml(article.title),
   created |-> article.created_at,
   updated |-> article.updated_at,
   properties |-> [k \in 1..Len(article.properties) |-> PropertyItem(article.properties[k])],
   content |-> article.content]

\* a table of contents written in the opposite order
generateHTMLReversedToc(selected) ==
  [toc |-> [i \in 1..Len(selected) |-> TocEntry(selected[Len(selected) + 1 - i])],
   articles |-> [i \in 1..Len(selected) |-> ArticleSection(selected[i])]]

generateHTML(selected) ==
  [toc |-> [i \in 1..Len(selected) |-> TocEntry(selected[i])],
   articles |-> [i \in 1..Len(selected) |-> ArticleSection(selected[i])]]

\* sections that get every selected property, whatever article it belongs to
WithPropertiesOfAll(article, properties) ==
  [id |-> article.id, title |-> article.title, content |-> article.content,
   created_at |-> article.created_at, updated_at |-> article.updated_at,
   properties |-> ToPairs(properties)]

\* {...article, properties: properties.filter(article_id === article.id).map(...)}
WithProperties(article, properties) ==
  LET Mine(prop) == prop.article_id = article.id
  IN [id |-> article.id, title |-> article.title, content |-> article.content,
      created_at |-> article.created_at, updated_at |-> article.updated_at,
      properties |-> ToPairs(SelectSeq(properties, Mine))]

ExportResult(success, downloadUrl) ==
  [kind |-> "exported", success |-> success, downloadUrl |-> downloadUrl]

Range(s) == { s[i] : i \in DOMAIN s }

\* an export that takes an empty article_ids list for a list that names no article
ResolvedListed(in) ==
  IF IsDefined(in.article_ids)
    THEN { a \in articles : a.id \in Range(in.article_ids[1]) }
    ELSE articles

\* an export that takes every article whatever article_ids says
ResolvedAll(in) == articles

\* the articles the export resolves: those of article_ids, or all
Resolved(in) ==
  IF IsDefined(in.article_ids) /\ Len(in.article_ids[1]) > 0
    THEN { a \in articles : a.id \in Range(in.article_ids[1]) }
    ELSE articles

CallExportArticles(p, in) ==
  /\ Call(p, [op |-> "exportArticles"] @@ in, "export_select_articles")
  /\ UNCHANGED << store, clock, files, client, local >>

\* an export that goes on with no article
ExportSelectArticlesUnchecked(p) ==
  /\ pc[p] = "export_select_articles"
  /\ \E rows \in Enumerations(SetToBag(Resolved(input[p]))) :
       /\ local' = [local EXCEPT ![p].articles = rows]
       /\ Goto(p, "export_select_properties")
  /\ UNCHANGED << store, clock, files, client >>

\* db.select().from(articlesTable)[.where(inArray(id, article_ids))]; no article: failure
ExportSelectArticles(p) ==
  /\ pc[p] = "export_select_articles"
  /\ IF Resolved(input[p]) = {}
       THEN Return(p, ExportResult(FALSE, Undefined))
       ELSE \E rows \in Enumerations(SetToBag(Resolved(input[p]))) :
              /\ local' = [local EXCEPT ![p].articles = rows]
              /\ Goto(p, "export_select_properties")
  /\ UNCHANGED << store, clock, files, client >>

\* db.select().from(articlePropertiesTable).where(inArray(article_id, articleIds)), then
\* the document is generated and written; format pdf writes the .html file too
ExportSelectProperties(p) ==
  /\ pc[p] = "export_select_properties"
  /\ LET selected == local[p].articles
         articleIds == { selected[i].id : i \in DOMAIN selected }
         stored == [r \in { x \in BagToSet(article_properties) : x.article_id \in articleIds }
                      |-> article_properties[r]]
     IN \E properties \in Enumerations(stored) :
          LET htmlContent ==
                generateHTML([i \in DOMAIN selected |-> WithProperties(selected[i], properties)])
              filename == [timestamp |-> clock, extension |-> input[p].format]
              filePath == [filename EXCEPT !.extension = "html"]
          IN /\ files' = { f \in files : f.name # filePath }
                           \cup { [name |-> filePath, content |-> htmlContent] }
             /\ Return(p, ExportResult(TRUE, Some(filename)))
  /\ UNCHANGED << store, clock, client >>

\* ------------------------------------------------------------------ PropertyManager
\* the component edits the list its parent holds: onChange(list) hands the parent the
\* new list, which comes back as the properties prop. Texts are tuples of UTF-16 code
\* units.
\* UTF-16: the code points of a text, a high surrogate followed by a low one making one
\* code point, and back
RECURSIVE CodePointsFrom(_, _)
CodePointsFrom(text, i) ==
  IF i > Len(text) THEN << >>
  ELSE IF /\ i < Len(text)
          /\ text[i] \in 55296..56319
          /\ text[i + 1] \in 56320..57343
    THEN << 65536 + (text[i] - 55296) * 1024 + (text[i + 1] - 56320) >>
           \o CodePointsFrom(text, i + 2)
    ELSE << text[i] >> \o CodePointsFrom(text, i + 1)

RECURSIVE CodeUnitsFrom(_, _)
CodeUnitsFrom(points, i) ==
  IF i > Len(points) THEN << >>
  ELSE IF points[i] > 65535
    THEN << 55296 + ((points[i] - 65536) \div 1024), 56320 + ((points[i] - 65536) % 1024) >>
           \o CodeUnitsFrom(points, i + 1)
    ELSE << points[i] >> \o CodeUnitsFrom(points, i + 1)

\* The result of the builtin follows the Unicode version of the runtime; the tables are
\* those of Unicode 17.0.
\* the simple lower-case mappings of the Unicode Character Database: the code points
\* from, from + step, ..., to are mapped to themselves + delta
LowerCaseRanges ==
  <<
     << 65, 90, 1, 32 >>, << 192, 214, 1, 32 >>, << 216, 222, 1, 32 >>, << 256, 302, 2, 1 >>,
     << 306, 310, 2, 1 >>, << 313, 327, 2, 1 >>, << 330, 374, 2, 1 >>, << 376, 376, 1, -121 >>,
     << 377, 381, 2, 1 >>, << 385, 385, 1, 210 >>, << 386, 388, 2, 1 >>, << 390, 390, 1, 206 >>,
     << 391, 391, 1, 1 >>, << 393, 394, 1, 205 >>, << 395, 395, 1, 1 >>, << 398, 398, 1, 79 >>,
     << 399, 399, 1, 202 >>, << 400, 400, 1, 203 >>, << 401, 401, 1, 1 >>, << 403, 403, 1, 205 >>,
     << 404, 404, 1, 207 >>, << 406, 406, 1, 211 >>, << 407, 407, 1, 209 >>, << 408, 408, 1, 1 >>,
     << 412, 412, 1, 211 >>, << 413, 413, 1, 213 >>, << 415, 415, 1, 214 >>, << 416, 420, 2, 1 >>,
     << 422, 422, 1, 218 >>, << 423, 423, 1, 1 >>, << 425, 425, 1, 218 >>, << 428, 428, 1, 1 >>,
     << 430, 430, 1, 218 >>, << 431, 431, 1, 1 >>, << 433, 434, 1, 217 >>, << 435, 437, 2, 1 >>,
     << 439, 439, 1, 219 >>, << 440, 440, 1, 1 >>, << 444, 444, 1, 1 >>, << 452, 452, 1, 2 >>,
     << 453, 453, 1, 1 >>, << 455, 455, 1, 2 >>, << 456, 456, 1, 1 >>, << 458, 458, 1, 2 >>,
     << 459, 475, 2, 1 >>, << 478, 494, 2, 1 >>, << 497, 497, 1, 2 >>, << 498, 500, 2, 1 >>,
     << 502, 502, 1, -97 >>, << 503, 503, 1, -56 >>, << 504, 542, 2, 1 >>, << 544, 544, 1, -130 >>,
     << 546, 562, 2, 1 >>, << 570, 570, 1, 10795 >>, << 571, 571, 1, 1 >>, << 573, 573, 1, -163 >>,
     << 574, 574, 1, 10792 >>, << 577, 577, 1, 1 >>, << 579, 579, 1, -195 >>, << 580, 580, 1, 69 >>,
     << 581, 581, 1, 71 >>, << 582, 590, 2, 1 >>, << 880, 882, 2, 1 >>, << 886, 886, 1, 1 >>,
     << 895, 895, 1, 116 >>, << 902, 902, 1, 38 >>, << 904, 906, 1, 37 >>, << 908, 908, 1, 64 >>,
     << 910, 911, 1, 63 >>, << 913, 929, 1, 32 >>, << 931, 939, 1, 32 >>, << 975, 975, 1, 8 >>,
     << 984, 1006, 2, 1 >>, << 1012, 1012, 1, -60 >>, << 1015, 1015, 1, 1 >>, << 1017, 1017, 1, -7 >>,
     << 1018, 1018, 1, 1 >>, << 1021, 1023, 1, -130 >>, << 1024, 1039, 1, 80 >>, << 1040, 1071, 1, 32 >>,
     << 1120, 1152, 2, 1 >>, << 1162, 1214, 2, 1 >>, << 1216, 1216, 1, 15 >>, << 1217, 1229, 2, 1 >>,
     << 1232, 1326, 2, 1 >>, << 1329, 1366, 1, 48 >>, << 4256, 4293, 1, 7264 >>, << 4295, 4295, 1, 7264 >>,
     << 4301, 4301, 1, 7264 >>, << 5024, 5103, 1, 38864 >>, << 5104, 5109, 1, 8 >>, << 7305, 7305, 1, 1 >>,
     << 7312, 7354, 1, -3008 >>, << 7357, 7359, 1, -3008 >>, << 7680, 7828, 2, 1 >>, << 7838, 7838, 1, -7615 >>,
     << 7840, 7934, 2, 1 >>, << 7944, 7951, 1, -8 >>, << 7960, 7965, 1, -8 >>, << 7976, 7983, 1, -8 >>,
     << 7992, 7999, 1, -8 >>, << 8008, 8013, 1, -8 >>, << 8025, 8031, 2, -8 >>, << 8040, 8047, 1, -8 >>,
     << 8072, 8079, 1, -8 >>, << 8088, 8095, 1, -8 >>, << 8104, 8111, 1, -8 >>, << 8120, 8121, 1, -8 >>,
     << 8122, 8123, 1, -74 >>, << 8124, 8124, 1, -9 >>, << 8136, 8139, 1, -86 >>, << 8140, 8140, 1, -9 >>,
     << 8152, 8153, 1, -8 >>, << 8154, 8155, 1, -100 >>, << 8168, 8169, 1, -8 >>, << 8170, 8171, 1, -112 >>,
     << 8172, 8172, 1, -7 >>, << 8184, 8185, 1, -128 >>, << 8186, 8187, 1, -126 >>, << 8188, 8188, 1, -9 >>,
     << 8486, 8486, 1, -7517 >>, << 8490, 8490, 1, -8383 >>, << 8491, 8491, 1, -8262 >>, << 8498, 8498, 1, 28 >>,
     << 8544, 8559, 1, 16 >>, << 8579, 8579, 1, 1 >>, << 9398, 9423, 1, 26 >>, << 11264, 11311, 1, 48 >>,
     << 11360, 11360, 1, 1 >>, << 11362, 11362, 1, -10743 >>, << 11363, 11363, 1, -3814 >>, << 11364, 11364, 1, -10727 >>,
     << 11367, 11371, 2, 1 >>, << 11373, 11373, 1, -10780 >>, << 11374, 11374, 1, -10749 >>, << 11375, 11375, 1, -10783 >>,
     << 11376, 11376, 1, -10782 >>, << 11378, 11378, 1, 1 >>, << 11381, 11381, 1, 1 >>, << 11390, 11391, 1, -10815 >>,
     << 11392, 11490, 2, 1 >>, << 11499, 11501, 2, 1 >>, << 11506, 11506, 1, 1 >>, << 42560, 42604, 2, 1 >>,
     << 42624, 42650, 2, 1 >>, << 42786, 42798, 2, 1 >>, << 42802, 42862, 2, 1 >>, << 42873, 42875, 2, 1 >>,
     << 42877, 42877, 1, -35332 >>, << 42878, 42886, 2, 1 >>, << 42891, 42891, 1, 1 >>, << 42893, 42893, 1, -42280 >>,
     << 42896, 42898, 2, 1 >>, << 42902, 42920, 2, 1 >>, << 42922, 42922, 1, -42308 >>, << 42923, 42923, 1, -42319 >>,
     << 42924, 42924, 1, -42315 >>, << 42925, 42925, 1, -42305 >>, << 42926, 42926, 1, -42308 >>, << 42928, 42928, 1, -42258 >>,
     << 42929, 42929, 1, -42282 >>, << 42930, 42930, 1, -42261 >>, << 42931, 42931, 1, 928 >>, << 42932, 42946, 2, 1 >>,
     << 42948, 42948, 1, -48 >>, << 42949, 42949, 1, -42307 >>, << 42950, 42950, 1, -35384 >>, << 42951, 42953, 2, 1 >>,
     << 42955, 42955, 1, -42343 >>, << 42956, 42970, 2, 1 >>, << 42972, 42972, 1, -42561 >>, << 42997, 42997, 1, 1 >>,
     << 65313, 65338, 1, 32 >>, << 66560, 66599, 1, 40 >>, << 66736, 66771, 1, 40 >>, << 66928, 66938, 1, 39 >>,
     << 66940, 66954, 1, 39 >>, << 66956, 66962, 1, 39 >>, << 66964, 66965, 1, 39 >>, << 68736, 68786, 1, 64 >>,
     << 68944, 68965, 1, 32 >>, << 71840, 71871, 1, 32 >>, << 93760, 93791, 1, 32 >>, << 93856, 93880, 1, 27 >>,
     << 125184, 125217, 1, 34 >>
  >>

\* the code points with the property Cased that are not Case_Ignorable, and those that
\* are Case_Ignorable, as ranges
CasedRanges ==
  <<
     << 65, 90 >>, << 97, 122 >>, << 170, 170 >>, << 181, 181 >>, << 186, 186 >>, << 192, 214 >>,
     << 216, 246 >>, << 248, 442 >>, << 444, 447 >>, << 452, 659 >>, << 662, 687 >>, << 880, 883 >>,
     << 886, 887 >>, << 891, 893 >>, << 895, 895 >>, << 902, 902 >>, << 904, 906 >>, << 908, 908 >>,
     << 910, 929 >>, << 931, 1013 >>, << 1015, 1153 >>, << 1162, 1327 >>, << 1329, 1366 >>, << 1376, 1416 >>,
     << 4256, 4293 >>, << 4295, 4295 >>, << 4301, 4301 >>, << 4304, 4346 >>, << 4349, 4351 >>, << 5024, 5109 >>,
     << 5112, 5117 >>, << 7296, 7306 >>, << 7312, 7354 >>, << 7357, 7359 >>, << 7424, 7467 >>, << 7531, 7543 >>,
     << 7545, 7578 >>, << 7680, 7957 >>, << 7960, 7965 >>, << 7968, 8005 >>, << 8008, 8013 >>, << 8016, 8023 >>,
     << 8025, 8025 >>, << 8027, 8027 >>, << 8029, 8029 >>, << 8031, 8061 >>, << 8064, 8116 >>, << 8118, 8124 >>,
     << 8126, 8126 >>, << 8130, 8132 >>, << 8134, 8140 >>, << 8144, 8147 >>, << 8150, 8155 >>, << 8160, 8172 >>,
     << 8178, 8180 >>, << 8182, 8188 >>, << 8450, 8450 >>, << 8455, 8455 >>, << 8458, 8467 >>, << 8469, 8469 >>,
     << 8473, 8477 >>, << 8484, 8484 >>, << 8486, 8486 >>, << 8488, 8488 >>, << 8490, 8493 >>, << 8495, 8500 >>,
     << 8505, 8505 >>, << 8508, 8511 >>, << 8517, 8521 >>, << 8526, 8526 >>, << 8544, 8575 >>, << 8579, 8580 >>,
     << 9398, 9449 >>, << 11264, 11387 >>, << 11390, 11492 >>, << 11499, 11502 >>, << 11506, 11507 >>, << 11520, 11557 >>,
     << 11559, 11559 >>, << 11565, 11565 >>, << 42560, 42605 >>, << 42624, 42651 >>, << 42786, 42863 >>, << 42865, 42887 >>,
     << 42891, 42894 >>, << 42896, 42972 >>, << 42997, 42998 >>, << 43002, 43002 >>, << 43824, 43866 >>, << 43872, 43880 >>,
     << 43888, 43967 >>, << 64256, 64262 >>, << 64275, 64279 >>, << 65313, 65338 >>, << 65345, 65370 >>, << 66560, 66639 >>,
     << 66736, 66771 >>, << 66776, 66811 >>, << 66928, 66938 >>, << 66940, 66954 >>, << 66956, 66962 >>, << 66964, 66965 >>,
     << 66967, 66977 >>, << 66979, 66993 >>, << 66995, 67001 >>, << 67003, 67004 >>, << 68736, 68786 >>, << 68800, 68850 >>,
     << 68944, 68965 >>, << 68976, 68997 >>, << 71840, 71903 >>, << 93760, 93823 >>, << 93856, 93880 >>, << 93883, 93907 >>,
     << 119808, 119892 >>, << 119894, 119964 >>, << 119966, 119967 >>, << 119970, 119970 >>, << 119973, 119974 >>, << 119977, 119980 >>,
     << 119982, 119993 >>, << 119995, 119995 >>, << 119997, 120003 >>, << 120005, 120069 >>, << 120071, 120074 >>, << 120077, 120084 >>,
     << 120086, 120092 >>, << 120094, 120121 >>, << 120123, 120126 >>, << 120128, 120132 >>, << 120134, 120134 >>, << 120138, 120144 >>,
     << 120146, 120485 >>, << 120488, 120512 >>, << 120514, 120538 >>, << 120540, 120570 >>, << 120572, 120596 >>, << 120598, 120628 >>,
     << 120630, 120654 >>, << 120656, 120686 >>, << 120688, 120712 >>, << 120714, 120744 >>, << 120746, 120770 >>, << 120772, 120779 >>,
     << 122624, 122633 >>, << 122635, 122654 >>, << 122661, 122666 >>, << 125184, 125251 >>, << 127280, 127305 >>, << 127312, 127337 >>,
     << 127344, 127369 >>
  >>

CaseIgnorableRanges ==
  <<
     << 39, 39 >>, << 46, 46 >>, << 58, 58 >>, << 94, 94 >>, << 96, 96 >>, << 168, 168 >>,
     << 173, 173 >>, << 175, 175 >>, << 180, 180 >>, << 183, 184 >>, << 688, 879 >>, << 884, 885 >>,
     << 890, 890 >>, << 900, 901 >>, << 903, 903 >>, << 1155, 1161 >>, << 1369, 1369 >>, << 1375, 1375 >>,
     << 1425, 1469 >>, << 1471, 1471 >>, << 1473, 1474 >>, << 1476, 1477 >>, << 1479, 1479 >>, << 1524, 1524 >>,
     << 1536, 1541 >>, << 1552, 1562 >>, << 1564, 1564 >>, << 1600, 1600 >>, << 1611, 1631 >>, << 1648, 1648 >>,
     << 1750, 1757 >>, << 1759, 1768 >>, << 1770, 1773 >>, << 1807, 1807 >>, << 1809, 1809 >>, << 1840, 1866 >>,
     << 1958, 1968 >>, << 2027, 2037 >>, << 2042, 2042 >>, << 2045, 2045 >>, << 2070, 2093 >>, << 2137, 2139 >>,
     << 2184, 2184 >>, << 2192, 2193 >>, << 2199, 2207 >>, << 2249, 2306 >>, << 2362, 2362 >>, << 2364, 2364 >>,
     << 2369, 2376 >>, << 2381, 2381 >>, << 2385, 2391 >>, << 2402, 2403 >>, << 2417, 2417 >>, << 2433, 2433 >>,
     << 2492, 2492 >>, << 2497, 2500 >>, << 2509, 2509 >>, << 2530, 2531 >>, << 2558, 2558 >>, << 2561, 2562 >>,
     << 2620, 2620 >>, << 2625, 2626 >>, << 2631, 2632 >>, << 2635, 2637 >>, << 2641, 2641 >>, << 2672, 2673 >>,
     << 2677, 2677 >>, << 2689, 2690 >>, << 2748, 2748 >>, << 2753, 2757 >>, << 2759, 2760 >>, << 2765, 2765 >>,
     << 2786, 2787 >>, << 2810, 2815 >>, << 2817, 2817 >>, << 2876, 2876 >>, << 2879, 2879 >>, << 2881, 2884 >>,
     << 2893, 2893 >>, << 2901, 2902 >>, << 2914, 2915 >>, << 2946, 2946 >>, << 3008, 3008 >>, << 3021, 3021 >>,
     << 3072, 3072 >>, << 3076, 3076 >>, << 3132, 3132 >>, << 3134, 3136 >>, << 3142, 3144 >>, << 3146, 3149 >>,
     << 3157, 3158 >>, << 3170, 3171 >>, << 3201, 3201 >>, << 3260, 3260 >>, << 3263, 3263 >>, << 3270, 3270 >>,
     << 3276, 3277 >>, << 3298, 3299 >>, << 3328, 3329 >>, << 3387, 3388 >>, << 3393, 3396 >>, << 3405, 3405 >>,
     << 3426, 3427 >>, << 3457, 3457 >>, << 3530, 3530 >>, << 3538, 3540 >>, << 3542, 3542 >>, << 3633, 3633 >>,
     << 3636, 3642 >>, << 3654, 3662 >>, << 3761, 3761 >>, << 3764, 3772 >>, << 3782, 3782 >>, << 3784, 3790 >>,
     << 3864, 3865 >>, << 3893, 3893 >>, << 3895, 3895 >>, << 3897, 3897 >>, << 3953, 3966 >>, << 3968, 3972 >>,
     << 3974, 3975 >>, << 3981, 3991 >>, << 3993, 4028 >>, << 4038, 4038 >>, << 4141, 4144 >>, << 4146, 4151 >>,
     << 4153, 4154 >>, << 4157, 4158 >>, << 4184, 4185 >>, << 4190, 4192 >>, << 4209, 4212 >>, << 4226, 4226 >>,
     << 4229, 4230 >>, << 4237, 4237 >>, << 4253, 4253 >>, << 4348, 4348 >>, << 4957, 4959 >>, << 5906, 5908 >>,
     << 5938, 5939 >>, << 5970, 5971 >>, << 6002, 6003 >>, << 6068, 6069 >>, << 6071, 6077 >>, << 6086, 6086 >>,
     << 6089, 6099 >>, << 6103, 6103 >>, << 6109, 6109 >>, << 6155, 6159 >>, << 6211, 6211 >>, << 6277, 6278 >>,
     << 6313, 6313 >>, << 6432, 6434 >>, << 6439, 6440 >>, << 6450, 6450 >>, << 6457, 6459 >>, << 6679, 6680 >>,
     << 6683, 6683 >>, << 6742, 6742 >>, << 6744, 6750 >>, << 6752, 6752 >>, << 6754, 6754 >>, << 6757, 6764 >>,
     << 6771, 6780 >>, << 6783, 6783 >>, << 6823, 6823 >>, << 6832, 6877 >>, << 6880, 6891 >>, << 6912, 6915 >>,
     << 6964, 6964 >>, << 6966, 6970 >>, << 6972, 6972 >>, << 6978, 6978 >>, << 7019, 7027 >>, << 7040, 7041 >>,
     << 7074, 7077 >>, << 7080, 7081 >>, << 7083, 7085 >>, << 7142, 7142 >>, << 7144, 7145 >>, << 7149, 7149 >>,
     << 7151, 7153 >>, << 7212, 7219 >>, << 7222, 7223 >>, << 7288, 7293 >>, << 7376, 7378 >>, << 7380, 7392 >>,
     << 7394, 7400 >>, << 7405, 7405 >>, << 7412, 7412 >>, << 7416, 7417 >>, << 7468, 7530 >>, << 7544, 7544 >>,
     << 7579, 7679 >>, << 8125, 8125 >>, << 8127, 8129 >>, << 8141, 8143 >>, << 8157, 8159 >>, << 8173, 8175 >>,
     << 8189, 8190 >>, << 8203, 8207 >>, << 8216, 8217 >>, << 8228, 8228 >>, << 8231, 8231 >>, << 8234, 8238 >>,
     << 8288, 8292 >>, << 8294, 8303 >>, << 8305, 8305 >>, << 8319, 8319 >>, << 8336, 8348 >>, << 8400, 8432 >>,
     << 11388, 11389 >>, << 11503, 11505 >>, << 11631, 11631 >>, << 11647, 11647 >>, << 11744, 11775 >>, << 11823, 11823 >>,
     << 12293, 12293 >>, << 12330, 12333 >>, << 12337, 12341 >>, << 12347, 12347 >>, << 12441, 12446 >>, << 12540, 12542 >>,
     << 40981, 40981 >>, << 42232, 42237 >>, << 42508, 42508 >>, << 42607, 42610 >>, << 42612, 42621 >>, << 42623, 42623 >>,
     << 42652, 42655 >>, << 42736, 42737 >>, << 42752, 42785 >>, << 42864, 42864 >>, << 42888, 42890 >>, << 42993, 42996 >>,
     << 43000, 43001 >>, << 43010, 43010 >>, << 43014, 43014 >>, << 43019, 43019 >>, << 43045, 43046 >>, << 43052, 43052 >>,
     << 43204, 43205 >>, << 43232, 43249 >>, << 43263, 43263 >>, << 43302, 43309 >>, << 43335, 43345 >>, << 43392, 43394 >>,
     << 43443, 43443 >>, << 43446, 43449 >>, << 43452, 43453 >>, << 43471, 43471 >>, << 43493, 43494 >>, << 43561, 43566 >>,
     << 43569, 43570 >>, << 43573, 43574 >>, << 43587, 43587 >>, << 43596, 43596 >>, << 43632, 43632 >>, << 43644, 43644 >>,
     << 43696, 43696 >>, << 43698, 43700 >>, << 43703, 43704 >>, << 43710, 43711 >>, << 43713, 43713 >>, << 43741, 43741 >>,
     << 43756, 43757 >>, << 43763, 43764 >>, << 43766, 43766 >>, << 43867, 43871 >>, << 43881, 43883 >>, << 44005, 44005 >>,
     << 44008, 44008 >>, << 44013, 44013 >>, << 64286, 64286 >>, << 64434, 64450 >>, << 65024, 65039 >>, << 65043, 65043 >>,
     << 65056, 65071 >>, << 65106, 65106 >>, << 65109, 65109 >>, << 65279, 65279 >>, << 65287, 65287 >>, << 65294, 65294 >>,
     << 65306, 65306 >>, << 65342, 65342 >>, << 65344, 65344 >>, << 65392, 65392 >>, << 65438, 65439 >>, << 65507, 65507 >>,
     << 65529, 65531 >>, << 66045, 66045 >>, << 66272, 66272 >>, << 66422, 66426 >>, << 67456, 67461 >>, << 67463, 67504 >>,
     << 67506, 67514 >>, << 68097, 68099 >>, << 68101, 68102 >>, << 68108, 68111 >>, << 68152, 68154 >>, << 68159, 68159 >>,
     << 68325, 68326 >>, << 68900, 68903 >>, << 68942, 68942 >>, << 68969, 68973 >>, << 68975, 68975 >>, << 69291, 69292 >>,
     << 69317, 69317 >>, << 69370, 69375 >>, << 69446, 69456 >>, << 69506, 69509 >>, << 69633, 69633 >>, << 69688, 69702 >>,
     << 69744, 69744 >>, << 69747, 69748 >>, << 69759, 69761 >>, << 69811, 69814 >>, << 69817, 69818 >>, << 69821, 69821 >>,
     << 69826, 69826 >>, << 69837, 69837 >>, << 69888, 69890 >>, << 69927, 69931 >>, << 69933, 69940 >>, << 70003, 70003 >>,
     << 70016, 70017 >>, << 70070, 70078 >>, << 70089, 70092 >>, << 70095, 70095 >>, << 70191, 70193 >>, << 70196, 70196 >>,
     << 70198, 70199 >>, << 70206, 70206 >>, << 70209, 70209 >>, << 70367, 70367 >>, << 70371, 70378 >>, << 70400, 70401 >>,
     << 70459, 70460 >>, << 70464, 70464 >>, << 70502, 70508 >>, << 70512, 70516 >>, << 70587, 70592 >>, << 70606, 70606 >>,
     << 70608, 70608 >>, << 70610, 70610 >>, << 70625, 70626 >>, << 70712, 70719 >>, << 70722, 70724 >>, << 70726, 70726 >>,
     << 70750, 70750 >>, << 70835, 70840 >>, << 70842, 70842 >>, << 70847, 70848 >>, << 70850, 70851 >>, << 71090, 71093 >>,
     << 71100, 71101 >>, << 71103, 71104 >>, << 71132, 71133 >>, << 71219, 71226 >>, << 71229, 71229 >>, << 71231, 71232 >>,
     << 71339, 71339 >>, << 71341, 71341 >>, << 71344, 71349 >>, << 71351, 71351 >>, << 71453, 71453 >>, << 71455, 71455 >>,
     << 71458, 71461 >>, << 71463, 71467 >>, << 71727, 71735 >>, << 71737, 71738 >>, << 71995, 71996 >>, << 71998, 71998 >>,
     << 72003, 72003 >>, << 72148, 72151 >>, << 72154, 72155 >>, << 72160, 72160 >>, << 72193, 72202 >>, << 72243, 72248 >>,
     << 72251, 72254 >>, << 72263, 72263 >>, << 72273, 72278 >>, << 72281, 72283 >>, << 72330, 72342 >>, << 72344, 72345 >>,
     << 72544, 72544 >>, << 72546, 72548 >>, << 72550, 72550 >>, << 72752, 72758 >>, << 72760, 72765 >>, << 72767, 72767 >>,
     << 72850, 72871 >>, << 72874, 72880 >>, << 72882, 72883 >>, << 72885, 72886 >>, << 73009, 73014 >>, << 73018, 73018 >>,
     << 73020, 73021 >>, << 73023, 73029 >>, << 73031, 73031 >>, << 73104, 73105 >>, << 73109, 73109 >>, << 73111, 73111 >>,
     << 73177, 73177 >>, << 73459, 73460 >>, << 73472, 73473 >>, << 73526, 73530 >>, << 73536, 73536 >>, << 73538, 73538 >>,
     << 73562, 73562 >>, << 78896, 78912 >>, << 78919, 78933 >>, << 90398, 90409 >>, << 90413, 90415 >>, << 92912, 92916 >>,
     << 92976, 92982 >>, << 92992, 92995 >>, << 93504, 93506 >>, << 93547, 93548 >>, << 94031, 94031 >>, << 94095, 94111 >>,
     << 94176, 94177 >>, << 94179, 94180 >>, << 94194, 94195 >>, << 110576, 110579 >>, << 110581, 110587 >>, << 110589, 110590 >>,
     << 113821, 113822 >>, << 113824, 113827 >>, << 118528, 118573 >>, << 118576, 118598 >>, << 119143, 119145 >>, << 119155, 119170 >>,
     << 119173, 119179 >>, << 119210, 119213 >>, << 119362, 119364 >>, << 121344, 121398 >>, << 121403, 121452 >>, << 121461, 121461 >>,
     << 121476, 121476 >>, << 121499, 121503 >>, << 121505, 121519 >>, << 122880, 122886 >>, << 122888, 122904 >>, << 122907, 122913 >>,
     << 122915, 122916 >>, << 122918, 122922 >>, << 122928, 122989 >>, << 123023, 123023 >>, << 123184, 123197 >>, << 123566, 123566 >>,
     << 123628, 123631 >>, << 124139, 124143 >>, << 124398, 124399 >>, << 124643, 124643 >>, << 124646, 124646 >>, << 124654, 124655 >>,
     << 124661, 124661 >>, << 124671, 124671 >>, << 125136, 125142 >>, << 125252, 125259 >>, << 127995, 127999 >>, << 917505, 917505 >>,
     << 917536, 917631 >>, << 917760, 917999 >>
  >>

\* c lies in one of the ranges lo..hi of a table whose ranges are apart and ascending
RECURSIVE InRangesBetween(_, _, _, _)
InRangesBetween(c, ranges, lo, hi) ==
  IF lo > hi THEN FALSE
  ELSE LET mid == (lo + hi) \div 2
       IN IF c < ranges[mid][1] THEN InRangesBetween(c, ranges, lo, mid - 1)
          ELSE IF c > ranges[mid][2] THEN InRangesBetween(c, ranges, mid + 1, hi)
          ELSE TRUE

InRanges(c, ranges) == InRangesBetween(c, ranges, 1, Len(ranges))

\* the place in LowerCaseRanges, between lo and hi, of the range c lies in, or 0
RECURSIVE LowerCaseRangeOf(_, _, _)
LowerCaseRangeOf(c, lo, hi) ==
  IF lo > hi THEN 0
  ELSE LET mid == (lo + hi) \div 2
       IN IF c < LowerCaseRanges[mid][1] THEN LowerCaseRangeOf(c, lo, mid - 1)
          ELSE IF c > LowerCaseRanges[mid][2] THEN LowerCaseRangeOf(c, mid + 1, hi)
          ELSE mid

LowerCasePoint(c) ==
  LET k == LowerCaseRangeOf(c, 1, Len(LowerCaseRanges))
  IN IF k = 0 THEN c
     ELSE IF (c - LowerCaseRanges[k][1]) % LowerCaseRanges[k][3] # 0 THEN c
     ELSE c + LowerCaseRanges[k][4]

\* the nearest character from place j in direction step (-1 back, 1 forth) that is not
\* case-ignorable is there and is a cased letter
RECURSIVE CasedLetterFrom(_, _, _)
CasedLetterFrom(points, j, step) ==
  IF j < 1 \/ j > Len(points) THEN FALSE
  ELSE IF InRanges(points[j], CaseIgnorableRanges) THEN CasedLetterFrom(points, j + step, step)
  ELSE InRanges(points[j], CasedRanges)

\* the condition Final_Sigma of SpecialCasing: a cased letter before, case-ignorable
\* characters skipped, and no cased letter after
FinalSigma(points, i) ==
  /\ CasedLetterFrom(points, i - 1, -1)
  /\ ~CasedLetterFrom(points, i + 1, 1)

RECURSIVE LowerCaseFrom(_, _)
LowerCaseFrom(points, i) ==
  IF i > Len(points) THEN << >>
  ELSE (IF points[i] = 304 THEN << 105, 775 >>
        ELSE IF points[i] = 931 THEN << IF FinalSigma(points, i) THEN 962 ELSE 963 >>
        ELSE << LowerCasePoint(points[i]) >>)
       \o LowerCaseFrom(points, i + 1)

\* String.prototype.toLowerCase: every code point by its lower-case mapping, capital I
\* with dot above as i and a combining dot, capital sigma by its place in the word
toLowerCase(text) == CodeUnitsFrom(LowerCaseFrom(CodePointsFrom(text, 1), 1), 1)

\* the code units of WhiteSpace and LineTerminator
WhiteSpace ==
  {9, 10, 11, 12, 13, 32, 160, 5760} \cup (8192..8202)
    \cup {8232, 8233, 8239, 8287, 12288, 65279}

\* String.prototype.trim: the text without the white space at its two ends
trim(text) ==
  LET inked == { i \in 1..Len(text) : text[i] \notin WhiteSpace }
  IN IF inked = {} THEN << >>
     ELSE LET first == CHOOSE i \in inked : \A j \in inked : i <= j
              last == CHOOSE i \in inked : \A j \in inked : j <= i
          IN SubSeq(text, first, last)

\* const propertyPresets = [{ name: 'URL' }, { name: 'Source' }, { name: 'Date' },
\* { name: 'Author' }, { name: 'Category' }, { name: 'Tags' }]
propertyPresets ==
  { << 85, 82, 76 >>,
    << 83, 111, 117, 114, 99, 101 >>,
    << 68, 97, 116, 101 >>,
    << 65, 117, 116, 104, 111, 114 >>,
    << 67, 97, 116, 101, 103, 111, 114, 121 >>,
    << 84, 97, 103, 115 >> }

\* properties.findIndex(p => ...), counted from 1; 0 when no entry passes (-1 in the code)
findIndex(properties, passes) ==
  IF passes = {} THEN 0 ELSE CHOOSE i \in passes : \A j \in passes : i <= j

\* the index of the last entry that passes
findLastIndex(properties, passes) ==
  IF passes = {} THEN 0 ELSE CHOOSE i \in passes : \A j \in passes : j <= i

\* what the user types in the two inputs of the form
setNewPropertyName(text) ==
  /\ editor' = [editor EXCEPT !.newPropertyName = text]
  /\ UNCHANGED << store, clock, calls, pc, input, local, response, files, dialog, app, awaiting >>

setNewPropertyValue(text) ==
  /\ editor' = [editor EXCEPT !.newPropertyValue = text]
  /\ UNCHANGED << store, clock, calls, pc, input, local, response, files, dialog, app, awaiting >>

\* an addProperty that overwrites the last entry of the name
addPropertyOverLast ==
  /\ LET name == editor.newPropertyName
         value == editor.newPropertyValue
         properties == editor.properties
         existingIndex ==
           findLastIndex(properties,
                         { i \in 1..Len(properties) :
                             toLowerCase(properties[i].property_name) = trim(toLowerCase(name)) })
         entry == [property_name |-> trim(name), property_value |-> trim(value)]
     IN IF trim(name) = << >> \/ trim(value) = << >>
          THEN editor' = editor
          ELSE editor' = [editor EXCEPT
                            !.properties = IF existingIndex >= 1
                                             THEN [properties EXCEPT ![existingIndex] = entry]
                                             ELSE Append(properties, entry),
                            !.newPropertyName = << >>,
                            !.newPropertyValue = << >>]
  /\ UNCHANGED << store, clock, calls, pc, input, local, response, files, dialog, app, awaiting >>

\* addProperty: nothing when the name or the value is blank; else the first entry whose
\* name in lower case is the typed name in lower case, trimmed, is overwritten, or an
\* entry is appended; then the form is reset
addProperty ==
  /\ LET name == editor.newPropertyName
         value == editor.newPropertyValue
         properties == editor.properties
         existingIndex ==
           findIndex(properties,
                     { i \in 1..Len(properties) :
                         toLowerCase(properties[i].property_name) = trim(toLowerCase(name)) })
         entry == [property_name |-> trim(name), property_value |-> trim(value)]
     IN IF trim(name) = << >> \/ trim(value) = << >>
          THEN editor' = editor
          ELSE editor' = [editor EXCEPT
                            !.properties = IF existingIndex >= 1
                                             THEN [properties EXCEPT ![existingIndex] = entry]
                                             ELSE Append(properties, entry),
                            !.newPropertyName = << >>,
                            !.newPropertyValue = << >>]
  /\ UNCHANGED << store, clock, calls, pc, input, local, response, files, dialog, app, awaiting >>

\* properties.filter((_, i) => i !== index)
removeProperty(index) ==
  /\ index \in 1..Len(editor.properties)
  /\ editor' = [editor EXCEPT !.properties =
                  [i \in 1..(Len(@) - 1) |-> IF i < index THEN @[i] ELSE @[i + 1]]]
  /\ UNCHANGED << store, clock, calls, pc, input, local, response, files, dialog, app, awaiting >>

\* the name or the value of an entry edited in place, as typed
updateProperty(index, field, value) ==
  /\ index \in 1..Len(editor.properties)
  /\ editor' = [editor EXCEPT !.properties[index] = [@ EXCEPT ![field] = value]]
  /\ UNCHANGED << store, clock, calls, pc, input, local, response, files, dialog, app, awaiting >>

selectPreset(presetName) ==
  /\ editor' = [editor EXCEPT !.newPropertyName = presetName, !.newPropertyValue = << >>]
  /\ UNCHANGED << store, clock, calls, pc, input, local, response, files, dialog, app, awaiting >>

\* ------------------------------------------------------------------ App and its components
\* One browser client: App with its TableOfContents, ArticleEditor (with its
\* PropertyManager) and ExportDialog. A handler runs up to its await in one step, which
\* sends the request and starts the call, and from its await on in another step, at
\* some time after the server has returned the answer; in between, the statements of
\* the calls, the handling of other answers and the user's actions interleave.
\* An await: the request (numbered as sent), the call, the handler, the values the
\* handler's closure holds, whether the component of the handler is still mounted,
\* and the answer once it is there.
Await(p, handler, count, format) ==
  [id |-> calls + 1, proc |-> p, handler |-> handler, count |-> count, format |-> format,
   mounted |-> TRUE, answer |-> Undefined]

Answered(handler) == { a \in awaiting : a.handler = handler /\ IsDefined(a.answer) }

\* handlers that send a second request when their first one is answered
Chained == {"handleSave", "handleDeleteArticle"}
Owed == Cardinality({ a \in awaiting : a.handler \in Chained })

\* the statement of getArticles or of deleteArticle is refused: the handler logs and
\* rethrows, and the client's call rejects
QueryFails(p) ==
  /\ pc[p] \in {"get_articles", "delete_article"}
  /\ Return(p, Thrown("DatabaseError"))
  /\ UNCHANGED << store, clock, files, client >>

\* the statement of exportArticles is refused (the database or the file system fails):
\* the handler logs and rethrows, and the client's mutate rejects
ExportStatementFails(p) ==
  /\ pc[p] \in {"export_select_articles", "export_select_properties"}
  /\ Return(p, Thrown("DatabaseError"))
  /\ UNCHANGED << store, clock, files, client >>

\* the characters of the code units 32..95 and 97..126, by which a text of the editor
\* (code units) is the text of a request (characters)
CharactersFromSpace ==
  <<
     " ", "!", "\"", "#", "$", "%", "&", "'", "(", ")", "*", "+",
     ",", "-", ".", "/", "0", "1", "2", "3", "4", "5", "6", "7",
     "8", "9", ":", ";", "<", "=", ">", "?", "@", "A", "B", "C",
     "D", "E", "F", "G", "H", "I", "J", "K", "L", "M", "N", "O",
     "P", "Q", "R", "S", "T", "U", "V", "W", "X", "Y", "Z", "[",
     "\\", "]", "^", "_" >>

CharactersFromA ==
  <<
     "a", "b", "c", "d", "e", "f", "g", "h", "i", "j", "k", "l",
     "m", "n", "o", "p", "q", "r", "s", "t", "u", "v", "w", "x",
     "y", "z", "{", "|", "}", "~" >>

Text(units) ==
  [i \in 1..Len(units) |-> IF units[i] < 96 THEN CharactersFromSpace[units[i] - 31]
                                            ELSE CharactersFromA[units[i] - 96]]

CodeUnitsOf(text) ==
  [i \in 1..Len(text) |->
     CHOOSE unit \in (32..95) \cup (97..126) : Text(<< unit >>) = << text[i] >>]

TextProperties(properties) ==
  [i \in 1..Len(properties) |->
     [property_name |-> Text(properties[i].property_name),
      property_value |-> Text(properties[i].property_value)]]

CodeUnitsOfProperties(properties) ==
  [i \in 1..Len(properties) |->
     [property_name |-> CodeUnitsOf(properties[i].property_name),
      property_value |-> CodeUnitsOf(properties[i].property_value)]]

\* ArticleEditor as it is mounted with the article it is given: its state, and the
\* effect that loads the article or resets the form; PropertyManager with an empty form
ArticleEditor(article) ==
  IF IsDefined(article)
    THEN [title |-> CodeUnitsOf(article[1].article.title),
          content |-> article[1].article.content,
          properties |-> CodeUnitsOfProperties(article[1].properties),
          isLoading |-> FALSE, newPropertyName |-> << >>, newPropertyValue |-> << >>]
    ELSE [title |-> << >>, content |-> "", properties |-> << >>,
          isLoading |-> FALSE, newPropertyName |-> << >>, newPropertyValue |-> << >>]

\* the content of the tab that is not shown is not mounted: the editor's state is gone
\* and the handlers of that editor that are still waiting set the state of nothing
Unmounted ==
  { IF a.handler = "handleSave" THEN [a EXCEPT !.mounted = FALSE] ELSE a : a \in awaiting }

\* App.loadArticles up to its await, called by handler when App is as in present and
\* the awaits are those of pending: setIsLoading(true), trpc.getArticles.query() is sent
loadArticles(p, handler, present, pending) ==
  /\ Start(p, [op |-> "getArticles"], "get_articles")
  /\ app' = [present EXCEPT !.isLoading = TRUE]
  /\ awaiting' = pending \cup {Await(p, handler, 0, "")}
  /\ UNCHANGED << store, clock, files, local, dialog >>

\* App.loadArticles after its await: setArticles(result), or the catch that leaves the
\* articles as they are; finally setIsLoading(false), whatever else is outstanding
loadArticlesSettled ==
  \E a \in Answered("loadArticles") :
    /\ app' = [app EXCEPT
                 !.isLoading = FALSE,
                 !.articles = IF a.answer[1].kind = "articles" THEN a.answer[1].articles ELSE @]
    /\ awaiting' = awaiting \ {a}
    /\ response' = NoResponse
    /\ UNCHANGED << store, clock, calls, pc, input, local, files, editor, dialog >>

\* App.handleArticleSaved after its await: loadArticles after its await, then
\* setActiveTab('toc')
handleArticleSavedSettled ==
  \E a \in Answered("handleArticleSaved") :
    /\ app' = [app EXCEPT
                 !.isLoading = FALSE,
                 !.articles = IF a.answer[1].kind = "articles" THEN a.answer[1].articles ELSE @,
                 !.activeTab = "toc"]
    /\ editor' = ArticleEditor(Undefined)
    /\ awaiting' = { IF b.handler = "handleSave" THEN [b EXCEPT !.mounted = FALSE] ELSE b :
                       b \in awaiting \ {a} }
    /\ response' = NoResponse
    /\ UNCHANGED << store, clock, calls, pc, input, local, files, dialog >>

\* the call of a client is served by any free worker of the server: the first
Worker == IF \E p \in Procs : Idle(p) THEN { CHOOSE p \in Procs : Idle(p) } ELSE {}

\* an article "A" with the property "k" = "v", stored before the page is opened
StoredArticle ==
  [id |-> 1, title |-> << "A" >>, content |-> "", created_at |-> 0, updated_at |-> 0]
StoredProperty ==
  [article_id |-> 1, property_name |-> << "k" >>, property_value |-> << "v" >>]

\* the state of App once its effect has run: the first loadArticles is outstanding;
\* the database is empty or holds an article
InitDialog ==
  /\ \/ /\ articles = {}
        /\ article_properties = EmptyBag
        /\ article_seq = 0
     \/ /\ articles = {StoredArticle}
        /\ article_properties = SetToBag({StoredProperty})
        /\ article_seq = 1
  /\ clock = 0
  /\ calls = 1
  /\ pc = [p \in Procs |-> IF p = "c1" THEN "get_articles" ELSE "idle"]
  /\ input = [p \in Procs |-> IF p = "c1" THEN [op |-> "getArticles"] ELSE NoInput]
  /\ local = [p \in Procs |-> NoLocal]
  /\ response = NoResponse
  /\ files = {}
  /\ editor = ArticleEditor(Undefined)
  /\ dialog = [exportFormat |-> "html", selectedArticleIds |-> << >>, selectAll |-> TRUE,
               isExporting |-> FALSE, exportResult |-> Null]
  /\ app = [articles |-> << >>, activeTab |-> "toc", editingArticle |-> Undefined,
            isExportDialogOpen |-> FALSE, isLoading |-> TRUE]
  /\ awaiting = {[id |-> 1, proc |-> "c1", handler |-> "loadArticles", count |-> 0,
                  format |-> "", mounted |-> TRUE, answer |-> Undefined]}
  /\ clicks = 0

\* App.handleCreateArticle: setEditingArticle(null), setActiveTab('editor'); the editor
\* is mounted, or, being there with an article, resets its form by its effect
handleCreateArticle ==
  /\ app' = [app EXCEPT !.editingArticle = Undefined, !.activeTab = "editor"]
  /\ editor' = IF app.activeTab = "toc" THEN ArticleEditor(Undefined)
               ELSE IF IsDefined(app.editingArticle)
                 THEN [editor EXCEPT !.title = << >>, !.content = "", !.properties = << >>]
                 ELSE editor
  /\ UNCHANGED << store, clock, calls, pc, input, local, response, files, dialog, awaiting >>

\* App.handleEditArticle: setEditingArticle(article), setActiveTab('editor'); the editor
\* is mounted and its effect loads the article
handleEditArticle(article) ==
  /\ app' = [app EXCEPT !.editingArticle = Some(article), !.activeTab = "editor"]
  /\ editor' = ArticleEditor(Some(article))
  /\ UNCHANGED << store, clock, calls, pc, input, local, response, files, dialog, awaiting >>

\* a tab is picked, or Cancel in the editor: setActiveTab(value)
setActiveTab(value) ==
  /\ app' = [app EXCEPT !.activeTab = value]
  /\ editor' = IF value = app.activeTab THEN editor
               ELSE IF value = "editor" THEN ArticleEditor(app.editingArticle)
               ELSE ArticleEditor(Undefined)
  /\ awaiting' = IF value = "toc" THEN Unmounted ELSE awaiting
  /\ UNCHANGED << store, clock, calls, pc, input, local, response, files, dialog >>

\* what the user types in the title input
setTitle(value) ==
  /\ editor' = [editor EXCEPT !.title = value]
  /\ UNCHANGED << store, clock, calls, pc, input, local, response, files, dialog, app, awaiting >>

\* what the user writes in the editor of the content
setContent(value) ==
  /\ editor' = [editor EXCEPT !.content = value]
  /\ UNCHANGED << store, clock, calls, pc, input, local, response, files, dialog, app, awaiting >>

\* a request whose input the schema of the procedure does not accept is sent: no
\* handler is called, the answer is the error of the validation
SendRefused(p, in) ==
  /\ Start(p, in, "input_refused")
  /\ UNCHANGED << store, clock, files, local >>

InputRefused(p) ==
  /\ pc[p] = "input_refused"
  /\ Return(p, Thrown("ValidationError"))
  /\ UNCHANGED << store, clock, files, client >>

\* ArticleEditor.handleSave up to its await: a blank title is refused with an alert;
\* else setIsLoading(true) and, with an article, trpc.updateArticle.mutate({id,
\* title: title.trim(), content, properties}) is sent, without one,
\* trpc.createArticle.mutate({title: title.trim(), content, properties})
handleSave(p, impl) ==
  IF trim(editor.title) = << >>
    THEN UNCHANGED << store, clock, calls, pc, input, local, response, files, client, awaiting >>
    ELSE LET updateInput == [id |-> app.editingArticle[1].id,
                             title |-> Some(Text(trim(editor.title))),
                             content |-> Some(editor.content),
                             properties |-> Some(TextProperties(editor.properties))]
             createInput == [title |-> Text(trim(editor.title)),
                             content |-> editor.content,
                             properties |-> TextProperties(editor.properties)]
         IN /\ calls + Owed + 2 <= MaxDialogCalls
            /\ IF IsDefined(app.editingArticle)
                 THEN IF UpdateArticleInputValid(updateInput)
                        THEN StartUpdateArticle(p, updateInput, impl)
                        ELSE SendRefused(p, [op |-> "updateArticle"] @@ updateInput)
                 ELSE IF CreateArticleInputValid(createInput)
                        THEN StartCreateArticle(p, createInput)
                        ELSE SendRefused(p, [op |-> "createArticle"] @@ createInput)
            /\ editor' = [editor EXCEPT !.isLoading = TRUE]
            /\ awaiting' = awaiting \cup {Await(p, "handleSave", 0, "")}
            /\ UNCHANGED << dialog, app >>

\* handleSave after its await: onSave(), which is App.handleArticleSaved and runs
\* loadArticles up to its await; or the catch and its alert; finally setIsLoading(false)
\* in the editor that sent the request, if it is still there
handleSaveSettled ==
  \E a \in Answered("handleSave") :
    /\ editor' = IF a.mounted THEN [editor EXCEPT !.isLoading = FALSE] ELSE editor
    /\ IF a.answer[1].kind = "error"
         THEN /\ awaiting' = awaiting \ {a}
              /\ response' = NoResponse
              /\ UNCHANGED << store, clock, calls, pc, input, local, files, dialog, app >>
         ELSE \E p \in Worker : loadArticles(p, "handleArticleSaved", app, awaiting \ {a})

\* App.handleDeleteArticle up to its await: trpc.deleteArticle.mutate({ id }) is sent
handleDeleteArticle(p, id) ==
  /\ calls + Owed + 2 <= MaxDialogCalls
  /\ Start(p, [op |-> "deleteArticle", id |-> id], "delete_article")
  /\ awaiting' = awaiting \cup {Await(p, "handleDeleteArticle", 0, "")}
  /\ UNCHANGED << store, clock, files, local, client >>

\* handleDeleteArticle after its await: loadArticles up to its await, or the catch
handleDeleteArticleSettled ==
  \E a \in Answered("handleDeleteArticle") :
    IF a.answer[1].kind = "error"
      THEN /\ awaiting' = awaiting \ {a}
           /\ response' = NoResponse
           /\ UNCHANGED << store, clock, calls, pc, input, local, files, client >>
      ELSE /\ \E p \in Worker : loadArticles(p, "loadArticles", app, awaiting \ {a})
           /\ UNCHANGED editor

\* the Export button of App: setIsExportDialogOpen(true)
openExportDialog ==
  /\ app' = [app EXCEPT !.isExportDialogOpen = TRUE]
  /\ UNCHANGED << store, clock, calls, pc, input, local, response, files, editor, dialog,
                  awaiting >>

ArticleIdsOf(list) == [i \in 1..Len(list) |-> list[i].id]

\* ExportDialog.handleClose: resetDialog(), then onClose(), which is
\* setIsExportDialogOpen(false)
handleClose ==
  /\ dialog' = [dialog EXCEPT !.exportResult = Null,
                              !.selectAll = TRUE,
                              !.selectedArticleIds = ArticleIdsOf(app.articles)]
  /\ app' = [app EXCEPT !.isExportDialogOpen = FALSE]
  /\ UNCHANGED << store, clock, calls, pc, input, local, response, files, editor, awaiting >>

setExportFormat(value) ==
  /\ dialog' = [dialog EXCEPT !.exportFormat = value]
  /\ UNCHANGED << store, clock, calls, pc, input, local, response, files, editor, app,
                  awaiting >>

handleSelectAll(checked) ==
  /\ dialog' = [dialog EXCEPT !.selectAll = checked,
                              !.selectedArticleIds = IF checked THEN ArticleIdsOf(app.articles)
                                                                ELSE << >>]
  /\ UNCHANGED << store, clock, calls, pc, input, local, response, files, editor, app,
                  awaiting >>

handleArticleSelection(articleId, checked) ==
  /\ LET NotIt(id) == id # articleId
     IN dialog' = IF checked
                    THEN [dialog EXCEPT !.selectedArticleIds = Append(@, articleId)]
                    ELSE [dialog EXCEPT !.selectedArticleIds = SelectSeq(@, NotIt),
                                        !.selectAll = FALSE]
  /\ UNCHANGED << store, clock, calls, pc, input, local, response, files, editor, app,
                  awaiting >>

ExportFailedMessage(text) == [success |-> FALSE, message |-> << text >>, downloadUrl |-> Undefined]

\* handleExport up to its await: nothing selected, or the request is sent
handleExport(p) ==
  IF Len(dialog.selectedArticleIds) = 0 /\ ~dialog.selectAll
    THEN /\ dialog' = [dialog EXCEPT !.exportResult =
                         ExportFailedMessage("Please select at least one article to export.")]
         /\ UNCHANGED << store, clock, calls, pc, input, local, response, files, editor, app,
                         awaiting >>
    ELSE /\ calls + Owed + 1 <= MaxDialogCalls
         /\ Start(p, [op |-> "exportArticles",
                      format |-> dialog.exportFormat,
                      article_ids |-> IF dialog.selectAll THEN Undefined
                                      ELSE Some(dialog.selectedArticleIds)],
                  "export_select_articles")
         /\ dialog' = [dialog EXCEPT !.isExporting = TRUE, !.exportResult = Null]
         /\ awaiting' = awaiting \cup
              {Await(p, "handleExport",
                     IF dialog.selectAll THEN Len(app.articles)
                                         ELSE Len(dialog.selectedArticleIds),
                     dialog.exportFormat)}
         /\ UNCHANGED << store, clock, files, local, editor, app >>

\* handleExport after its await: the call resolved, whatever it returned, and success
\* is shown; or it rejected and the failure is shown; finally isExporting is reset
handleExportSettled ==
  \E a \in Answered("handleExport") :
    /\ dialog' = [dialog EXCEPT
                    !.isExporting = FALSE,
                    !.exportResult =
                      IF a.answer[1].kind = "error"
                        THEN ExportFailedMessage("Export failed. Please try again.")
                        ELSE [success |-> TRUE,
                              message |-> << "Successfully exported", a.count,
                                             IF a.format = "html" THEN "HTML" ELSE "PDF" >>,
                              downloadUrl |-> Some("#")]]
    /\ awaiting' = awaiting \ {a}
    /\ response' = NoResponse
    /\ UNCHANGED << store, clock, calls, pc, input, local, files, editor, app >>

\* ------------------------------------------------------------------ Next
Implementations == {"join", "two_selects"}

\* a statement of a call in flight
Statement(p) ==
  \/ CreateInsertArticle(p)
  \/ CreateInsertProperties(p)
  \/ DeleteArticleRow(p)
  \/ UpdateArticleSet(p)
  \/ UpdateDeleteProperties(p)
  \/ UpdateInsertProperties(p)
  \/ UpdateSelectProperties(p)
  \/ UpdateSelectExisting(p)
  \/ UpdateExistingArticleSet(p)
  \/ UpdateExistingDeleteProperties(p)
  \/ UpdateExistingInsertProperties(p)
  \/ UpdateSelectJoin(p)
  \/ GetArticleByIdJoin(p)
  \/ GetArticleByIdSelectArticle(p)
  \/ GetArticleByIdSelectProperties(p)
  \/ GetArticleByIdFails(p)

\* a request arrives, its input drawn from creates and updates
Request(p, creates, updates) ==
  \/ \E in \in creates : CallCreateArticle(p, in)
  \/ \E in \in updates, impl \in UpdateImplementations : CallUpdateArticle(p, in, impl)
  \/ \E id \in RequestIds : CallDeleteArticle(p, id)
  \/ \E id \in RequestIds, impl \in Implementations : CallGetArticleById(p, id, impl)

\* the inputs that differ in their properties alone
PropertyCreateInputs == { in \in CreateInputs : in.title = "A" /\ in.content = "" }
PropertyUpdateInputs ==
  { in \in UpdateInputs : in.title = Undefined /\ in.content = Undefined }

\* the inputs with at most one property
ShortCreateInputs == { in \in CreateInputs : Len(in.properties) <= 1 }
ShortUpdateInputs ==
  { in \in UpdateInputs : IsDefined(in.properties) => Len(in.properties[1]) <= 1 }

\* requests served one after the other (a call starts when no other is in flight),
\* over every property list, the clock standing still
Next ==
  \/ \E p \in Free : Request(p, PropertyCreateInputs, PropertyUpdateInputs)
  \/ \E p \in Procs : Statement(p)

Spec == Init /\ [][Next]_vars

\* requests served one after the other while time passes, also between the statements
\* of a call, over every choice of the fields an update supplies
ClockPropertyLists == { << >>, << [property_name |-> "Author", property_value |-> "Ann"] >> }
ClockCreateInputs == [title : {"A"}, content : {""}, properties : ClockPropertyLists]
ClockUpdateInputs ==
  [id : RequestIds, title : Optional({"B"}), content : Optional({"<p>x</p>"}),
   properties : Optional(ClockPropertyLists)]

NextClock ==
  \/ Tick
  \/ \E p \in Free : Request(p, ClockCreateInputs, ClockUpdateInputs)
  \/ \E p \in Procs : Statement(p)

SpecClock == Init /\ [][NextClock]_vars

\* articles created and deleted one call after the other and listed by getArticles,
\* over property lists with an empty value and with a name twice
ListPropertyLists ==
  { << >>,
    << [property_name |-> "Author", property_value |-> ""] >>,
    << [property_name |-> "Author", property_value |-> "Ann"],
       [property_name |-> "Author", property_value |-> ""] >>,
    << [property_name |-> "Author", property_value |-> "Ann"],
       [property_name |-> "Author", property_value |-> "Ann"] >> }
ListCreateInputs == [title : {"A"}, content : {""}, properties : ListPropertyLists]

NextList ==
  \/ \E p \in Free, in \in ListCreateInputs : CallCreateArticle(p, in)
  \/ \E p \in Free, id \in RequestIds : CallDeleteArticle(p, id)
  \/ \E p \in Free : CallGetArticles(p)
  \/ \E p \in Procs : CreateInsertArticle(p)
  \/ \E p \in Procs : CreateInsertProperties(p)
  \/ \E p \in Procs : DeleteArticleRow(p)
  \/ \E p \in Procs : GetArticlesJoin(p)

SpecList == Init /\ [][NextList]_vars

\* requests that may fail to parse, served one after the other
ValidationPropertyLists ==
  { << >>,
    << [property_name |-> "Author", property_value |-> "Ann"] >>,
    << [property_name |-> "", property_value |-> "Ann"] >> }
ValidationCreateInputs ==
  [title : {"", "A"}, content : {""}, properties : ValidationPropertyLists]
ValidationUpdateInputs ==
  [id : RequestIds, title : Optional({"", "B"}), content : {Undefined},
   properties : Optional(ValidationPropertyLists)]

NextValidation ==
  \/ \E p \in Free, in \in ValidationCreateInputs : CallCreateArticle(p, in)
  \/ \E p \in Free, in \in ValidationCreateInputs : RejectCreateArticle(p, in)
  \/ \E p \in Free, in \in ValidationUpdateInputs, impl \in UpdateImplementations :
       CallUpdateArticle(p, in, impl)
  \/ \E p \in Free, in \in ValidationUpdateInputs : RejectUpdateArticle(p, in)
  \/ \E p \in Procs : CreateInsertArticle(p)
  \/ \E p \in Procs : CreateInsertProperties(p)
  \/ \E p \in Procs : UpdateArticleSet(p)
  \/ \E p \in Procs : UpdateDeleteProperties(p)
  \/ \E p \in Procs : UpdateInsertProperties(p)
  \/ \E p \in Procs : UpdateSelectProperties(p)
  \/ \E p \in Procs : UpdateSelectExisting(p)
  \/ \E p \in Procs : UpdateExistingArticleSet(p)
  \/ \E p \in Procs : UpdateExistingDeleteProperties(p)
  \/ \E p \in Procs : UpdateExistingInsertProperties(p)
  \/ \E p \in Procs : UpdateSelectJoin(p)

SpecValidation == Init /\ [][NextValidation]_vars

\* articles created and exported one call after the other, over texts that hold the
\* characters to escape
ScriptTitle ==
  << "<", "s", "c", "r", "i", "p", "t", ">", "a", "l", "e", "r", "t", "(", "1", ")",
     "<", "/", "s", "c", "r", "i", "p", "t", ">" >>
ExportTitles == { << "A" >>, ScriptTitle, << "&", "\"", "'" >> }
ExportPropertyLists ==
  { << >>,
    << [property_name |-> << "N", "<" >>, property_value |-> << >>] >>,
    << [property_name |-> << "N" >>, property_value |-> << "'", "&", ">" >>] >> }
ExportCreateInputs == [title : ExportTitles, content : {""}, properties : ExportPropertyLists]
ExportIds == 1..(MaxArticles + 1)
ExportIdLists == UNION { [1..n -> ExportIds] : n \in 0..2 }
ExportInputs == [format : {"html", "pdf"}, article_ids : Optional(ExportIdLists)]

NextExport ==
  \/ \E p \in Free, in \in ExportCreateInputs : CallCreateArticle(p, in)
  \/ \E p \in Free, in \in ExportInputs : CallExportArticles(p, in)
  \/ \E p \in Procs : CreateInsertArticle(p)
  \/ \E p \in Procs : CreateInsertProperties(p)
  \/ \E p \in Procs : ExportSelectArticles(p)
  \/ \E p \in Procs : ExportSelectProperties(p)

SpecExport == Init /\ [][NextExport]_vars

\* createArticle requests as sent, content and properties given or not, served one
\* after the other
RawPropertyLists ==
  { << >>,
    << [property_name |-> "Author", property_value |-> "Ann"],
       [property_name |-> "Author", property_value |-> ""] >>,
    << [property_name |-> "Author", property_value |-> ""],
       [property_name |-> "Author", property_value |-> "Ann"] >> }
RawCreateInputs ==
  [title : {"A"}, content : Optional(Contents), properties : Optional(RawPropertyLists)]

NextCreate ==
  \/ \E p \in Free, raw \in RawCreateInputs : RequestCreateArticle(p, raw)
  \/ \E p \in Procs : CreateInsertArticle(p)
  \/ \E p \in Procs : CreateInsertProperties(p)

SpecCreate == Init /\ [][NextCreate]_vars

\* articles with markup in title, content and properties, some with two properties of
\* one name, exported to html one after the other
SectionTitles == { << "<", "b", ">" >> }
SectionContents == { << >>, << "<", "b", ">", "&", "'", "\"" >> }
SectionPropertyLists ==
  { << >>,
    << [property_name |-> << "N" >>, property_value |-> << "<" >>],
       [property_name |-> << "N" >>, property_value |-> << "a" >>] >>,
    << [property_name |-> << "N" >>, property_value |-> << "a" >>],
       [property_name |-> << "N" >>, property_value |-> << "a" >>] >>,
    << [property_name |-> << "M", "&" >>, property_value |-> << >>] >> }
SectionCreateInputs ==
  [title : SectionTitles, content : SectionContents, properties : SectionPropertyLists]
SectionExportInputs ==
  [format : {"html"}, article_ids : Optional({ << >>, << 1 >>, << 2, 1 >> })]

NextSections ==
  \/ \E p \in Free, in \in SectionCreateInputs : CallCreateArticle(p, in)
  \/ \E p \in Free, in \in SectionExportInputs : CallExportArticles(p, in)
  \/ \E p \in Procs : CreateInsertArticle(p)
  \/ \E p \in Procs : CreateInsertProperties(p)
  \/ \E p \in Procs : ExportSelectArticles(p)
  \/ \E p \in Procs : ExportSelectProperties(p)

SpecSections == Init /\ [][NextSections]_vars

\* the user at the PropertyManager: types, picks a preset, adds, edits and removes
\* (typed: "", no-break space + "url" + space, "A" + capital sigma + U+1171E + capital
\* sigma; a carriage return, "x", " y"; edited in place: "Url", "a" + final sigma +
\* U+1171E + small sigma; picked: "URL"; U+1171E is the code units 55301, 57118)
TypedNames == { << >>, << 160, 117, 114, 108, 32 >>, << 65, 931, 55301, 57118, 931 >> }
TypedValues == { << 13 >>, << 120 >>, << 32, 121 >> }
EditedNames == { << 85, 114, 108 >>, << 97, 962, 55301, 57118, 963 >> }
PickedPresets == { << 85, 82, 76 >> }

\* the list grows to MaxProps entries at most
RoomToAdd ==
  \/ Len(editor.properties) < MaxProps
  \/ \E i \in 1..Len(editor.properties) :
       toLowerCase(editor.properties[i].property_name)
         = trim(toLowerCase(editor.newPropertyName))

NextEditor ==
  \/ \E text \in TypedNames : setNewPropertyName(text) /\ UNCHANGED clicks
  \/ \E text \in TypedValues : setNewPropertyValue(text) /\ UNCHANGED clicks
  \/ \E presetName \in PickedPresets \cap propertyPresets :
       selectPreset(presetName) /\ UNCHANGED clicks
  \/ (RoomToAdd /\ addProperty /\ UNCHANGED clicks)
  \/ \E index \in 1..MaxProps : removeProperty(index) /\ UNCHANGED clicks
  \/ \E index \in 1..MaxProps, value \in EditedNames :
       updateProperty(index, "property_name", value) /\ UNCHANGED clicks

SpecEditor == Init /\ [][NextEditor]_vars

\* creates and updates served one after the other by a database that may refuse any
\* statement; each request is kept with the rows stored when it was sent
StoredRows == [articles |-> articles, article_properties |-> article_properties]

NextFailure ==
  \/ \E p \in Free, in \in ClockCreateInputs :
       CallCreateArticle(p, [sent_at |-> StoredRows] @@ in)
  \/ \E p \in Free, in \in ClockUpdateInputs, impl \in UpdateImplementations :
       CallUpdateArticle(p, [sent_at |-> StoredRows] @@ in, impl)
  \/ \E p \in Procs : CreateInsertArticle(p)
  \/ \E p \in Procs : CreateInsertProperties(p)
  \/ \E p \in Procs : UpdateArticleSet(p)
  \/ \E p \in Procs : UpdateDeleteProperties(p)
  \/ \E p \in Procs : UpdateInsertProperties(p)
  \/ \E p \in Procs : UpdateSelectProperties(p)
  \/ \E p \in Procs : UpdateSelectExisting(p)
  \/ \E p \in Procs : UpdateExistingArticleSet(p)
  \/ \E p \in Procs : UpdateExistingDeleteProperties(p)
  \/ \E p \in Procs : UpdateExistingInsertProperties(p)
  \/ \E p \in Procs : UpdateSelectJoin(p)
  \/ \E p \in Procs : StatementFails(p)

SpecFailure == Init /\ [][NextFailure]_vars

\* one client: its App loads the articles; an article is written in the editor, with
\* or without a property, and saved, or edited and saved, or deleted in the table of
\* contents, and the list is loaded again; the export dialog is opened, articles are
\* ticked, the export is started and answered, the dialog is closed
\* (typed: space + "B" + no-break space; a paragraph; the property "k" = "v"; the
\* name of an entry edited to "" and to "K", its value to "w"; the preset "URL")
TypedTitles == { << 32, 66, 160 >> }
TypedContents == { "<p>x</p>" }
DialogTypedNames == { << 107 >> }
DialogTypedValues == { << 118 >> }
DialogEditedNames == { << >>, << 75 >> }
DialogEditedValues == { << 119 >> }

\* the Save button is disabled while the title is blank and while saving; the Edit and
\* Delete buttons are those of the articles of the list, shown in the tab of the table
\* of contents while it is not loading; the Export button is disabled while exporting
\* and when nothing is selected; the dialog is modal; a checkbox hands its handler the
\* opposite of what it shows, and the checkboxes of the articles are shown while Select
\* All is not ticked
SaveButtonDisabled == trim(editor.title) = << >> \/ editor.isLoading
ExportButtonDisabled ==
  dialog.isExporting \/ (Len(dialog.selectedArticleIds) = 0 /\ ~dialog.selectAll)
AtPage == ~app.isExportDialogOpen
AtDialog == app.isExportDialogOpen
AtEditor == AtPage /\ app.activeTab = "editor"
AtTableOfContents == AtPage /\ app.activeTab = "toc" /\ ~app.isLoading

\* the user clicks or types, MaxClicks times at most
Click == clicks < MaxClicks /\ clicks' = clicks + 1

NextDialog ==
  \/ Click /\ AtPage /\ handleCreateArticle
  \/ \E i \in 1..Len(app.articles) : Click /\ AtTableOfContents /\ handleEditArticle(app.articles[i])
  \/ \E value \in {"toc", "editor"} : Click /\ AtPage /\ value # app.activeTab /\ setActiveTab(value)
  \/ \E value \in TypedTitles : Click /\ AtEditor /\ setTitle(value)
  \/ \E value \in TypedContents : Click /\ AtEditor /\ setContent(value)
  \/ \E text \in DialogTypedNames : Click /\ AtEditor /\ setNewPropertyName(text)
  \/ \E text \in DialogTypedValues : Click /\ AtEditor /\ setNewPropertyValue(text)
  \/ Click /\ AtEditor /\ RoomToAdd /\ addProperty
  \/ \E index \in 1..Len(editor.properties) : Click /\ AtEditor /\ removeProperty(index)
  \/ \E index \in 1..Len(editor.properties), value \in DialogEditedNames :
       Click /\ AtEditor /\ updateProperty(index, "property_name", value)
  \/ \E index \in 1..Len(editor.properties), value \in DialogEditedValues :
       Click /\ AtEditor /\ updateProperty(index, "property_value", value)
  \/ \E presetName \in PickedPresets \cap propertyPresets :
       Click /\ AtEditor /\ selectPreset(presetName)
  \/ \E p \in Worker, impl \in UpdateImplementations :
       Click /\ AtEditor /\ ~SaveButtonDisabled /\ handleSave(p, impl)
  \/ handleSaveSettled /\ UNCHANGED clicks
  \/ handleArticleSavedSettled /\ UNCHANGED clicks
  \/ \E p \in Worker, i \in 1..Len(app.articles) :
       Click /\ AtTableOfContents /\ handleDeleteArticle(p, app.articles[i].id)
  \/ handleDeleteArticleSettled /\ UNCHANGED clicks
  \/ loadArticlesSettled /\ UNCHANGED clicks
  \/ Click /\ AtPage /\ openExportDialog
  \/ Click /\ AtDialog /\ handleClose
  \/ \E value \in {"html", "pdf"} : Click /\ AtDialog /\ setExportFormat(value)
  \/ Click /\ AtDialog /\ handleSelectAll(~dialog.selectAll)
  \/ \E i \in 1..Len(app.articles) :
       /\ Click
       /\ AtDialog
       /\ ~dialog.selectAll
       /\ handleArticleSelection(app.articles[i].id,
                                 app.articles[i].id \notin Range(dialog.selectedArticleIds))
  \/ \E p \in Worker : Click /\ AtDialog /\ ~ExportButtonDisabled /\ handleExport(p)
  \/ handleExportSettled /\ UNCHANGED clicks
  \/ \E p \in Procs : CreateInsertArticle(p)
  \/ \E p \in Procs : CreateInsertProperties(p)
  \/ \E p \in Procs : UpdateArticleSet(p)
  \/ \E p \in Procs : UpdateDeleteProperties(p)
  \/ \E p \in Procs : UpdateInsertProperties(p)
  \/ \E p \in Procs : UpdateSelectProperties(p)
  \/ \E p \in Procs : UpdateSelectExisting(p)
  \/ \E p \in Procs : UpdateExistingArticleSet(p)
  \/ \E p \in Procs : UpdateExistingDeleteProperties(p)
  \/ \E p \in Procs : UpdateExistingInsertProperties(p)
  \/ \E p \in Procs : UpdateSelectJoin(p)
  \/ \E p \in Procs : DeleteArticleRow(p)
  \/ \E p \in Procs : GetArticlesJoin(p)
  \/ \E p \in Procs : ExportSelectArticles(p)
  \/ \E p \in Procs : ExportSelectProperties(p)
  \/ \E p \in Procs : InputRefused(p)
  \/ \E p \in Procs : StatementFails(p)
  \/ \E p \in Procs : QueryFails(p)
  \/ \E p \in Procs : ExportStatementFails(p)

SpecDialog == InitDialog /\ [][NextDialog]_vars

\* requests served concurrently: the statements of the calls in flight interleave
ConcurrentCreateInputs == PropertyCreateInputs \cap ShortCreateInputs
ConcurrentUpdateInputs == PropertyUpdateInputs \cap ShortUpdateInputs

NextConcurrent ==
  \/ \E p \in Procs : Request(p, ConcurrentCreateInputs, ConcurrentUpdateInputs)
  \/ \E p \in Procs : CallGetArticles(p)
  \/ \E p \in Procs : Statement(p)
  \/ \E p \in Procs : GetArticlesJoin(p)

SpecConcurrent == Init /\ [][NextConcurrent]_vars

\* ------------------------------------------------------------------ properties
\* the call of client p took a step
Stepped(p) == pc'[p] # pc[p]

\* the (name, value) pairs stored in table B for article id, with their multiplicity
PairsIn(B, id) ==
  LET rows == PropertiesIn(B, id)
  IN [x \in { ToPair(r) : r \in BagToSet(rows) } |->
        rows[[article_id |-> id, property_name |-> x.property_name,
              property_value |-> x.property_value]]]

\* the documents the export that has just returned wrote
ExportedDocuments ==
  { f.content : f \in { g \in files : g.name.timestamp = response.downloadUrl[1].timestamp } }

Exported == response.kind = "exported" /\ response.success

\* C1: in every reachable state, whatever the interleaving of the statements of
\* createArticle, updateArticle and deleteArticle calls, every stored property's
\* article_id is the id of a stored article.
NoOrphanProperty ==
  \A r \in BagToSet(article_properties) : r.article_id \in ArticleIds

\* an insert of properties for an article deleted meanwhile was refused by the store
OrphanInsertRefused ==
  /\ response.kind = "error"
  /\ response.error = "ForeignKeyViolation"
  /\ response.input.op = "updateArticle"

\* C2: a successful deleteArticle(A) removes article A and every property of A, and
\* leaves every other article and every property of every other article unchanged.
DeleteRemovesOnlyItsArticle ==
  [][\A p \in Procs :
       (pc[p] = "delete_article" /\ Stepped(p) /\ response'.success)
         => /\ articles' = { a \in articles : a.id # input[p].id }
            /\ input[p].id \in ArticleIds
            /\ \A j \in RequestIds :
                 PropertiesIn(article_properties', j) =
                   IF j = input[p].id THEN EmptyBag ELSE PropertiesOf(j)]_vars

\* an article was deleted and another article still has its properties
DeletedBesideAnotherArticle ==
  /\ response.kind = "deleted"
  /\ response.success
  /\ \E a \in articles : PropertiesOf(a.id) # EmptyBag

\* C3: createArticle with the properties P followed by getArticleById of the returned
\* id yields exactly the pairs of P as a multiset, pairs of the same name all kept
\* (for both implementations of getArticleById and every order the store may
\* enumerate the rows in).
CreateThenGetByIdYieldsProperties ==
  (response.kind = "article" /\ response.input.op = "createArticle")
    => /\ \A results \in Enumerations(JoinRows(response.article.id)) :
            /\ GetArticleByIdResult(results).kind = "article"
            /\ Multiset(GetArticleByIdResult(results).properties)
                 = Multiset(response.input.properties)
       /\ response.article.id \in ArticleIds
       /\ \A properties \in Enumerations(PropertiesOf(response.article.id)) :
            Multiset(ToPairs(properties)) = Multiset(response.input.properties)

\* an article was created with two properties of the same name
CreatedWithSameNameTwice ==
  /\ response.kind = "article"
  /\ response.input.op = "createArticle"
  /\ Len(response.input.properties) = 2
  /\ response.input.properties[1].property_name = response.input.properties[2].property_name
  /\ response.input.properties[1] # response.input.properties[2]

\* C4: every statement of an updateArticle call leaves the title, the content and the
\* properties of the article as they were unless the input supplies them, and leaves
\* the id and created_at of every article as they were.
UpdateChangesOnlyWhatItSupplies ==
  [][\A p \in Procs :
       (input[p].op = "updateArticle" /\ Stepped(p))
         => /\ ArticleIds' = ArticleIds
            /\ \A a \in articles :
                 LET b == ArticleIn(articles', a.id)
                 IN /\ b.created_at = a.created_at
                    /\ (a.id # input[p].id => b = a)
                    /\ (~IsDefined(input[p].title) => b.title = a.title)
                    /\ (~IsDefined(input[p].content) => b.content = a.content)
            /\ (~IsDefined(input[p].properties) => article_properties' = article_properties)]_vars

\* an update that supplied only a title returned, for an article with a content, with
\* properties and created before it was updated
UpdatedTitleOnly ==
  /\ response.kind = "article"
  /\ response.input.op = "updateArticle"
  /\ IsDefined(response.input.title)
  /\ ~IsDefined(response.input.content)
  /\ ~IsDefined(response.input.properties)
  /\ response.input.id \in ArticleIds
  /\ ArticleRow(response.input.id).title = response.input.title[1]
  /\ ArticleRow(response.input.id).content # ""
  /\ ArticleRow(response.input.id).created_at < ArticleRow(response.input.id).updated_at
  /\ PropertiesOf(response.input.id) # EmptyBag

\* C5: when an updateArticle call that supplies the properties P (the empty list
\* included) returns, the properties stored for its article are exactly P, and no
\* statement of the call changes the properties of another article.
UpdateReplacesProperties ==
  [][\A p \in Procs :
       (input[p].op = "updateArticle" /\ Stepped(p))
         => /\ \A j \in RequestIds \ {input[p].id} :
                 PropertiesIn(article_properties', j) = PropertiesOf(j)
            /\ (pc'[p] = "idle" /\ response'.kind = "article" /\ IsDefined(input[p].properties))
                 => PairsIn(article_properties', input[p].id) = Multiset(input[p].properties[1])]_vars

\* an update has replaced the properties its article had when the call started, and
\* another article has properties
UpdateReplacedOldProperties ==
  \E p \in Procs :
    /\ pc[p] \in {"update_select_properties", "update_select_join"}
    /\ IsDefined(input[p].properties)
    /\ local[p].before # EmptyBag
    /\ PropertiesOf(input[p].id) # local[p].before
    /\ \E a \in articles : a.id # input[p].id /\ PropertiesOf(a.id) # EmptyBag

\* C6: updateArticle with an id that matches no stored article ends with the
\* not-found error at its first statement (the update, or the select of the
\* implementation that selects first) and leaves the store unchanged, also when the
\* input carries properties.
UpdateOfMissingArticleFails ==
  [][\A p \in Procs :
       (/\ pc[p] \in {"update_set", "update_select_existing"}
        /\ Stepped(p)
        /\ input[p].id \notin ArticleIds)
         => /\ pc'[p] = "idle"
            /\ response'.kind = "error"
            /\ response'.error = "NotFound"
            /\ store' = store]_vars

\* an update that carried properties failed with not-found while articles and
\* properties were stored
UpdateWithPropertiesNotFound ==
  /\ response.kind = "error"
  /\ response.error = "NotFound"
  /\ IsDefined(response.input.properties)
  /\ Len(response.input.properties[1]) > 0
  /\ articles # {}
  /\ article_properties # EmptyBag

\* C7 (the claim as stated): when two updateArticle calls for the same article, with
\* the property lists P1 and P2, are in flight together and both have run their
\* delete and insert, the article's stored properties are exactly P1 or exactly P2.
ConcurrentUpdatesDoNotMix ==
  \A p, q \in Procs :
    (/\ p # q
     /\ pc[p] \in {"update_select_properties", "update_select_join"}
     /\ pc[q] \in {"update_select_properties", "update_select_join"}
     /\ input[p].id = input[q].id
     /\ IsDefined(input[p].properties) /\ IsDefined(input[q].properties))
      => \/ PairsIn(article_properties, input[p].id) = Multiset(input[p].properties[1])
         \/ PairsIn(article_properties, input[p].id) = Multiset(input[q].properties[1])

\* the property list a read returned for the article id, as the set holding its
\* multiset; empty when the read did not return that article
ReadOf(id) ==
  IF response.kind = "article" /\ response.input.op = "getArticleById"
       /\ response.article.id = id
    THEN { Multiset(response.properties) }
  ELSE IF response.kind = "articles"
    THEN { Multiset(response.articles[k].properties) :
             k \in { i \in 1..Len(response.articles) : response.articles[i].id = id } }
  ELSE {}

\* C8 (the claim as stated): a getArticleById or getArticles call that returns while
\* a createArticle or an updateArticle with properties P is in flight returns that
\* article, if at all, with the complete list stored before the operation or with P.
ReadsNeverPartial ==
  \A p \in Procs :
    /\ pc[p] = "create_insert_properties"
         => \A seen \in ReadOf(local[p].article[1].id) : seen = Multiset(input[p].properties)
    /\ (/\ input[p].op = "updateArticle"
        /\ IsDefined(input[p].properties))
         => \A seen \in ReadOf(input[p].id) :
              \/ seen = Multiset(input[p].properties[1])
              \/ seen = PairsIn(local[p].before, input[p].id)

\* C9 (the claim as stated): every stored article has updated_at >= created_at.
UpdatedNotBeforeCreated ==
  \A a \in articles : a.updated_at >= a.created_at

\* C10 (the claim as stated): every successful updateArticle leaves updated_at
\* strictly greater than its value before the call.
UpdateStrictlyAdvancesUpdatedAt ==
  [][\A p \in Procs :
       (/\ pc[p] \in {"update_set", "update_existing_set"}
        /\ Stepped(p)
        /\ input[p].id \in ArticleIds)
         => ArticleIn(articles', input[p].id).updated_at > ArticleRow(input[p].id).updated_at]_vars

\* C11: deleteArticle(id) returns success = true exactly when an article with that
\* id was stored and the call removes it; for an id that matches no stored article
\* it returns success = false, not an error, and leaves the store unchanged.
DeleteReportsWhetherItDeleted ==
  [][\A p \in Procs :
       (pc[p] = "delete_article" /\ Stepped(p))
         => /\ response'.kind = "deleted"
            /\ response'.success = (input[p].id \in ArticleIds)
            /\ input[p].id \notin { a.id : a \in articles' }
            /\ (input[p].id \notin ArticleIds => store' = store)]_vars

\* a delete of an id that matches no article returned while articles and properties
\* were stored
DeleteOfMissingArticle ==
  /\ response.kind = "deleted"
  /\ ~response.success
  /\ articles # {}
  /\ article_properties # EmptyBag

\* C12 (the claim as stated): getArticles returns the articles ordered by id
\* ascending, whatever order the store enumerates its rows in.
GetArticlesOrderedById ==
  response.kind = "articles"
    => \A i, j \in 1..Len(response.articles) :
         i < j => response.articles[i].id < response.articles[j].id

\* C13: getArticles returns one entry per stored article (the empty list when none
\* is stored), each entry with the article's row and with exactly the properties
\* stored for that article, those with an empty value and those of the same name
\* included; an article without properties has the empty list.
GetArticlesListsEveryArticle ==
  response.kind = "articles"
    => /\ { response.articles[i].id : i \in 1..Len(response.articles) } = ArticleIds
       /\ Len(response.articles) = Cardinality(ArticleIds)
       /\ \A i \in 1..Len(response.articles) :
            LET entry == response.articles[i]
            IN /\ entry.article = ArticleRow(entry.id)
               /\ Multiset(entry.properties) = PairsIn(article_properties, entry.id)

\* getArticles listed an article without properties beside an article with an empty
\* value and the same name twice
ListedMixedProperties ==
  /\ response.kind = "articles"
  /\ \E i, j \in 1..Len(response.articles) :
       /\ response.articles[i].properties = << >>
       /\ Len(response.articles[j].properties) = 2
       /\ \E k \in 1..2 : response.articles[j].properties[k].property_value = ""

\* C14: getArticleById(id) returns null, and no error, exactly when no article with
\* that id is stored (never created, or deleted); otherwise it returns that article
\* with its properties. The one error a call ends with is that of a statement the
\* database refused, which the handler rethrows, whether the article is stored or not:
\* a call whose statements are all served ends with no error. For both
\* implementations, calls served one after the other.
GetArticleByIdNullIffMissing ==
  [][\A p \in Procs :
       (input[p].op = "getArticleById" /\ Stepped(p))
         => \/ GetArticleByIdFails(p)
            \/ /\ (input[p].id \notin ArticleIds)
                    => (pc'[p] = "idle" /\ response'.kind = "null")
               /\ (input[p].id \in ArticleIds /\ pc'[p] = "idle")
                    => /\ response'.kind = "article"
                       /\ response'.article = ArticleRow(input[p].id)
                       /\ Multiset(response'.properties)
                            = PairsIn(article_properties, input[p].id)]_vars

\* getArticleById returned null for an id that was created and then deleted
NullAfterDelete ==
  /\ response.kind = "null"
  /\ response.input.op = "getArticleById"
  /\ response.input.id <= article_seq
  /\ response.input.id \notin ArticleIds

\* C15: a createArticle request with an empty title, and an updateArticle request
\* that supplies an empty title, never reaches its handler: no handler holds such an
\* input, no stored title is empty, and the step that answers a request with a
\* validation error leaves the store unchanged and starts no handler.
EmptyTitleRejected ==
  [][/\ \A p \in Procs :
          /\ input'[p].op = "createArticle" => input'[p].title # ""
          /\ (input'[p].op = "updateArticle" /\ IsDefined(input'[p].title))
               => input'[p].title[1] # ""
     /\ \A a \in articles' : a.title # ""
     /\ (response'.kind = "error" /\ response'.error = "ValidationError")
          => (store' = store /\ pc' = pc)]_vars

\* an update that supplied an empty title was answered with a validation error while
\* an article was stored
EmptyTitleUpdateRejected ==
  /\ response.kind = "error"
  /\ response.error = "ValidationError"
  /\ response.input.op = "updateArticle"
  /\ response.input.title = Some("")
  /\ response.input.id \in ArticleIds

\* C16: when exportArticles is given a non-empty article_ids list, the document it
\* writes has one section, and one entry in the table of contents, for each stored
\* article whose id is in the list and for no other: ids that match no article are
\* dropped, and every title and property name in the document is that of the listed
\* article of its section.
ExportHoldsExactlyTheListedArticles ==
  (/\ Exported
   /\ IsDefined(response.input.article_ids)
   /\ Len(response.input.article_ids[1]) > 0)
    => /\ ExportedDocuments # {}
       /\ \A doc \in ExportedDocuments :
            LET listed == Range(response.input.article_ids[1]) \cap ArticleIds
            IN /\ Len(doc.articles) = Cardinality(listed)
               /\ { doc.articles[i].id : i \in 1..Len(doc.articles) } = listed
               /\ Len(doc.toc) = Cardinality(listed)
               /\ { doc.toc[i].href : i \in 1..Len(doc.toc) } = listed
               /\ \A i \in 1..Len(doc.toc) :
                    doc.toc[i].title = escapeHtml(ArticleRow(doc.toc[i].href).title)
               /\ \A i \in 1..Len(doc.articles) :
                    LET section == doc.articles[i]
                        stored == PairsIn(article_properties, section.id)
                    IN /\ section.title = escapeHtml(ArticleRow(section.id).title)
                       /\ Len(section.properties)
                            = BagCardinality(PropertiesOf(section.id))
                       /\ { section.properties[k].name : k \in 1..Len(section.properties) }
                            = { escapeHtml(x.property_name) : x \in DOMAIN stored }

\* an export of a list with the id of a stored article and an id that matches none
\* returned while another article, with another title and a property, was stored
ExportedOneOfTwoArticles ==
  /\ Exported
  /\ IsDefined(response.input.article_ids)
  /\ Range(response.input.article_ids[1]) \cap ArticleIds # {}
  /\ Range(response.input.article_ids[1]) \ ArticleIds # {}
  /\ \E a \in articles :
       /\ a.id \notin Range(response.input.article_ids[1])
       /\ PropertiesOf(a.id) # EmptyBag
       /\ \A b \in articles : b.id # a.id => b.title # a.title

\* C17: when the articles an exportArticles call resolves are none (nothing is
\* stored, or every given id matches no article), the call returns success = false
\* without a downloadUrl at its first statement and writes no file; and a call that
\* returns success = false has resolved no article.
EmptyExportFails ==
  [][\A p \in Procs :
       (input[p].op = "exportArticles" /\ Stepped(p))
         => /\ (pc[p] = "export_select_articles" /\ Resolved(input[p]) = {})
                 => /\ pc'[p] = "idle"
                    /\ response' = [proc |-> p, input |-> input[p]]
                                     @@ ExportResult(FALSE, Undefined)
                    /\ files' = files
                    /\ store' = store
            /\ (pc'[p] = "idle" /\ ~response'.success) => Resolved(input[p]) = {}]_vars

\* an export of ids that match no article failed while an article was stored
ExportOfUnmatchedIdsFailed ==
  /\ response.kind = "exported"
  /\ ~response.success
  /\ IsDefined(response.input.article_ids)
  /\ Len(response.input.article_ids[1]) > 0
  /\ articles # {}
  /\ files = {}

\* C18: the table of contents of an exported document has one entry per resolved
\* article, in the order of the article sections, and the anchor article-<id> each
\* entry links to is the id of exactly one section of the document; every section
\* has its entry.
TocMatchesSections ==
  Exported
    => \A doc \in ExportedDocuments :
         /\ Len(doc.toc) = Len(doc.articles)
         /\ Len(doc.toc) = Cardinality(Resolved(response.input))
         /\ \A i \in 1..Len(doc.toc) : doc.toc[i].href = doc.articles[i].id
         /\ \A i \in 1..Len(doc.toc) :
              Cardinality({ j \in 1..Len(doc.articles) : doc.articles[j].id = doc.toc[i].href }) = 1
         /\ \A j \in 1..Len(doc.articles) :
              \E i \in 1..Len(doc.toc) : doc.toc[i].href = doc.articles[j].id

\* a document of two articles was exported, the second created before the first
TwoArticlesExportedOutOfOrder ==
  /\ Exported
  /\ \E doc \in ExportedDocuments :
       /\ Len(doc.articles) = 2
       /\ doc.articles[1].id > doc.articles[2].id

\* the character reference that stands for a character, the one for the apostrophe
\* given; a character that needs none stands for itself
CharacterReference(c, apostrophe) ==
  CASE c = "&" -> << "&", "a", "m", "p", ";" >>
    [] c = "<" -> << "&", "l", "t", ";" >>
    [] c = ">" -> << "&", "g", "t", ";" >>
    [] c = "\"" -> << "&", "q", "u", "o", "t", ";" >>
    [] c = "'" -> apostrophe
    [] OTHER -> << c >>

RECURSIVE WithReferences(_, _)
WithReferences(text, apostrophe) ==
  IF text = << >> THEN << >>
  ELSE CharacterReference(Head(text), apostrophe) \o WithReferences(Tail(text), apostrophe)

\* every title, property name and property value of the exported documents is the
\* stored text with its characters replaced by their references
InsertedTextsHaveReferences(apostrophe) ==
  Exported
    => \A doc \in ExportedDocuments :
         /\ \A i \in 1..Len(doc.toc) :
              doc.toc[i].title = WithReferences(ArticleRow(doc.toc[i].href).title, apostrophe)
         /\ \A i \in 1..Len(doc.articles) :
              LET section == doc.articles[i]
                  stored == DOMAIN PairsIn(article_properties, section.id)
              IN /\ section.title = WithReferences(ArticleRow(section.id).title, apostrophe)
                 /\ \A k \in 1..Len(section.properties) :
                      \E x \in stored :
                        /\ section.properties[k].name
                             = WithReferences(x.property_name, apostrophe)
                        /\ \/ x.property_value = << >>
                           \/ section.properties[k].value
                                = WithReferences(x.property_value, apostrophe)
                 /\ \A x \in stored :
                      x.property_value # << >>
                        => \E k \in 1..Len(section.properties) :
                             section.properties[k]
                               = [name |-> WithReferences(x.property_name, apostrophe),
                                  value |-> WithReferences(x.property_value, apostrophe)]

\* no text inserted in the exported documents holds <, >, " or ' as such
NoRawMarkupInserted ==
  Exported
    => \A doc \in ExportedDocuments :
         LET Raw(text) == Range(text) \cap {"<", ">", "\"", "'"} # {}
         IN /\ \A i \in 1..Len(doc.toc) : ~Raw(doc.toc[i].title)
            /\ \A i \in 1..Len(doc.articles) :
                 /\ ~Raw(doc.articles[i].title)
                 /\ \A k \in 1..Len(doc.articles[i].properties) :
                      /\ ~Raw(doc.articles[i].properties[k].name)
                      /\ ~Raw(doc.articles[i].properties[k].value)

\* &lt;script&gt;alert(1)&lt;/script&gt;
EscapedScriptTitle ==
  << "&", "l", "t", ";", "s", "c", "r", "i", "p", "t", "&", "g", "t", ";",
     "a", "l", "e", "r", "t", "(", "1", ")",
     "&", "l", "t", ";", "/", "s", "c", "r", "i", "p", "t", "&", "g", "t", ";" >>

\* C19 (the claim as stated): every title, property name and property value inserted
\* in the exported document has each &, <, >, " and ' replaced by its named
\* character reference (&amp; &lt; &gt; &quot; &apos;).
InsertedTextsHaveNamedReferences ==
  InsertedTextsHaveReferences(<< "&", "a", "p", "o", "s", ";" >>)

\* C19 (amended): every title, property name and property value inserted in the
\* exported document has each &, <, > and " replaced by its named character
\* reference and each ' by the numeric reference &#39;, so the inserted text holds
\* none of <, >, ", ' as such, and the title <script>alert(1)</script> is written
\* &lt;script&gt;alert(1)&lt;/script&gt;.
InsertedTextsAreEscaped ==
  /\ InsertedTextsHaveReferences(<< "&", "#", "3", "9", ";" >>)
  /\ NoRawMarkupInserted
  /\ Exported
       => \A doc \in ExportedDocuments :
            \A i \in 1..Len(doc.articles) :
              ArticleRow(doc.articles[i].id).title = ScriptTitle
                => /\ doc.articles[i].title = EscapedScriptTitle
                   /\ doc.toc[i].title = EscapedScriptTitle

\* a document was exported with the script title and with a title and a property
\* value that hold an apostrophe
ExportedScriptAndApostrophes ==
  /\ Exported
  /\ \E a, b \in articles :
       /\ a.title = ScriptTitle
       /\ "'" \in Range(b.title)
       /\ \E r \in BagToSet(PropertiesOf(b.id)) : "'" \in Range(r.property_value)
  /\ \E doc \in ExportedDocuments : Len(doc.articles) = 2

\* C20 (the claim as stated): in the exported document a property whose value is
\* the empty string is rendered with its name and an empty value, never with "/" in
\* the place of the value.
EmptyValueRenderedEmpty ==
  Exported
    => \A doc \in ExportedDocuments :
         \A i \in 1..Len(doc.articles) :
           LET section == doc.articles[i]
           IN \A x \in DOMAIN PairsIn(article_properties, section.id) :
                x.property_value = << >>
                  => \E k \in 1..Len(section.properties) :
                       /\ section.properties[k].name
                            = WithReferences(x.property_name, << "&", "#", "3", "9", ";" >>)
                       /\ section.properties[k].value = << >>

\* C21: no two stored articles share an id, and the insert of a createArticle call
\* gives the new article an id greater than every id the store has given before
\* (article_seq, the last value of the serial), those of deleted articles included.
ArticleIdsUniqueAndIncreasing ==
  [][/\ \A a, b \in articles' : a.id = b.id => a = b
     /\ \A a \in articles' : a.id <= article_seq'
     /\ \A p \in Procs :
          (pc[p] = "create_insert_article" /\ Stepped(p))
            => \E row \in articles' :
                 /\ articles' = articles \cup {row}
                 /\ row.id \notin ArticleIds
                 /\ row.id > article_seq
                 /\ pc'[p] = "idle" => response'.article.id = row.id]_vars

\* a createArticle returned the id 2 after the article 1 was deleted
CreatedAfterDelete ==
  /\ response.kind = "article"
  /\ response.input.op = "createArticle"
  /\ response.article.id = 2
  /\ ArticleIds = {2}

\* C22: createArticle returns the new article with the properties of the request,
\* element for element and in the same order; a request without properties gets
\* properties = [], and a request without content has the empty string stored and
\* returned as content.
CreateReturnsWhatWasSent ==
  (response.kind = "article" /\ response.input.op = "createArticle")
    => LET raw == response.input.raw
           stored == ArticleRow(response.article.id)
       IN /\ response.properties
               = (IF IsDefined(raw.properties) THEN raw.properties[1] ELSE << >>)
          /\ response.article.content = (IF IsDefined(raw.content) THEN raw.content[1] ELSE "")
          /\ response.article.title = raw.title
          /\ response.article = stored

\* a create without content and with two properties that differ returned after a
\* create without properties
CreatedWithoutContent ==
  /\ response.kind = "article"
  /\ response.input.op = "createArticle"
  /\ ~IsDefined(response.input.raw.content)
  /\ IsDefined(response.input.raw.properties)
  /\ Len(response.properties) = 2
  /\ response.properties[1] # response.properties[2]
  /\ \E a \in articles : PropertiesOf(a.id) = EmptyBag

\* C23: in the exported document the section of each article lists every
\* (name, value) pair stored for that article, once for each stored copy, pairs that
\* share a name included, and no pair of another article; the section of an article
\* with no property has no properties block. (A listed pair is the item the renderer
\* writes for it.)
SectionListsItsOwnProperties ==
  Exported
    => /\ ExportedDocuments # {}
       /\ \A doc \in ExportedDocuments :
            \A i \in 1..Len(doc.articles) :
              LET section == doc.articles[i]
                  mine == PropertiesOf(section.id)
              IN /\ \E rows \in Enumerations(mine) :
                      section.properties
                        = [k \in 1..Len(rows) |-> PropertyItem(ToPair(rows[k]))]
                 /\ (mine = EmptyBag) <=> (section.properties = << >>)

\* a document with two sections: one article has two properties of one name, the
\* other has one property of another name
ExportedDuplicateNames ==
  /\ Exported
  /\ \E doc \in ExportedDocuments :
       /\ Len(doc.articles) = 2
       /\ \E i, j \in 1..2 :
            /\ Len(doc.articles[i].properties) = 2
            /\ doc.articles[i].properties[1].name = doc.articles[i].properties[2].name
            /\ doc.articles[i].properties[1].value # doc.articles[i].properties[2].value
            /\ Len(doc.articles[j].properties) = 1
            /\ doc.articles[j].properties[1].name # doc.articles[i].properties[1].name
       /\ \E a \in articles : PropertiesOf(a.id) # EmptyBag

\* C24: the renderer inserts the content of each article as it is stored, no
\* character escaped, while the title and the property names and values of the
\* section are escaped.
ContentIsInsertedRaw ==
  Exported
    => \A doc \in ExportedDocuments :
         \A i \in 1..Len(doc.articles) :
           LET section == doc.articles[i]
               stored == ArticleRow(section.id)
           IN /\ section.content = stored.content
              /\ section.title = escapeHtml(stored.title)
              /\ \A c \in Range(section.title) : c \notin {"<", ">", "\"", "'"}
              /\ \A k \in 1..Len(section.properties) :
                   \A c \in Range(section.properties[k].name)
                              \cup Range(section.properties[k].value) :
                     c \notin {"<", ">", "\"", "'"}

\* a section whose content holds markup characters and whose title and property value
\* were stored with such characters too
ExportedMarkupContent ==
  /\ Exported
  /\ \E doc \in ExportedDocuments :
       \E i \in 1..Len(doc.articles) :
         /\ {"<", "&", "'", "\""} \subseteq Range(doc.articles[i].content)
         /\ "<" \in Range(ArticleRow(doc.articles[i].id).title)
         /\ \E r \in BagToSet(PropertiesOf(doc.articles[i].id)) : "<" \in Range(r.property_value)

\* the names of the editor that are one name ignoring case: "url", "Url" and "URL";
\* "A" + capital sigma + U+1171E (two code units) + capital sigma and the same
\* letters in small
NamesIgnoringCase ==
  { { << 117, 114, 108 >>, << 85, 114, 108 >>, << 85, 82, 76 >> },
    { << 65, 931, 55301, 57118, 931 >>, << 97, 962, 55301, 57118, 963 >> } }

SameIgnoringCase(a, b) ==
  \/ a = b
  \/ \E names \in NamesIgnoringCase : a \in names /\ b \in names

\* C25: addProperty with a name that, trimmed, equals the name of an entry of the list
\* ignoring case (the two are the same letters, in whichever case) overwrites the name
\* and the value of the first such entry in place, with the trimmed name and value, and
\* keeps the length of the list; with a name no
\* entry matches it appends exactly one entry; with a name or a value that is blank
\* after trimming it leaves the list as it is.
AddPropertyOverwritesOrAppends ==
  [][addProperty =>
       LET name == trim(editor.newPropertyName)
           value == trim(editor.newPropertyValue)
           old == editor.properties
           new == editor'.properties
           matching == { i \in 1..Len(old) : SameIgnoringCase(old[i].property_name, name) }
       IN IF name = << >> \/ value = << >>
            THEN new = old
            ELSE IF matching # {}
                   THEN /\ Len(new) = Len(old)
                        /\ \A i \in matching :
                             IF \A j \in matching : i <= j
                               THEN new[i] = [property_name |-> name, property_value |-> value]
                               ELSE new[i] = old[i]
                        /\ \A i \in (1..Len(old)) \ matching : new[i] = old[i]
                   ELSE /\ Len(new) = Len(old) + 1
                        /\ new[Len(new)] = [property_name |-> name, property_value |-> value]
                        /\ \A i \in 1..Len(old) : new[i] = old[i]]_vars

\* the list holds two entries of one name up to case, "url" and "Url", the first of
\* them overwritten by the last addProperty with the name typed between a no-break
\* space and a space and the value " y"
OverwroteFirstOfTwo ==
  /\ Len(editor.properties) = 2
  /\ editor.properties[1] = [property_name |-> << 117, 114, 108 >>, property_value |-> << 121 >>]
  /\ editor.properties[2].property_name = << 85, 114, 108 >>
  /\ editor.properties[2].property_value = << 120 >>
  /\ editor.newPropertyName = << >>

\* C26 (the claim as stated): when createArticle or updateArticle ends with an error,
\* a statement having failed after an earlier one succeeded, the stored articles and
\* properties are those stored before the call.
FailedCallLeavesStoreAsItWas ==
  (/\ response.kind = "error"
   /\ response.input.op \in {"createArticle", "updateArticle"})
    => StoredRows = response.input.sent_at

\* C27 (the claim as stated): whenever exportArticles returns success = true, for the
\* format html and for the format pdf alike, the file that the last segment of
\* downloadUrl names exists in the exports directory and holds the generated document,
\* one section for each article the export resolved.
DownloadUrlNamesTheWrittenFile ==
  Exported
    => \E f \in files :
         /\ f.name = response.downloadUrl[1]
         /\ { f.content.articles[i].id : i \in 1..Len(f.content.articles) }
              = { a.id : a \in Resolved(response.input) }

\* C28: exportArticles with article_ids = [] resolves to every stored article, as it
\* does when article_ids is omitted: it returns success = true exactly when at least
\* one article is stored, and the document it writes has a section for every stored
\* article.
EmptyIdListExportsEverything ==
  (/\ response.kind = "exported"
   /\ \/ ~IsDefined(response.input.article_ids)
      \/ response.input.article_ids = Some(<< >>))
    => /\ response.success <=> (articles # {})
       /\ response.success
            => /\ ExportedDocuments # {}
               /\ \A doc \in ExportedDocuments :
                    /\ Len(doc.articles) = Cardinality(articles)
                    /\ { doc.articles[i].id : i \in 1..Len(doc.articles) } = ArticleIds

\* an export with article_ids = [] succeeded with two articles stored
ExportedAllWithEmptyIdList ==
  /\ Exported
  /\ response.input.article_ids = Some(<< >>)
  /\ Cardinality(articles) = 2
  /\ \E doc \in ExportedDocuments : Len(doc.articles) = 2

\* C29: of two concurrent deleteArticle calls for the same stored id exactly one
\* returns success = true and the other success = false: the call whose delete runs
\* first returns true and removes the article, a delete of an id that is not stored
\* returns false, and an id once removed is never stored again.
ConcurrentDeletesSucceedOnce ==
  [][/\ \A p \in Procs :
          (pc[p] = "delete_article" /\ Stepped(p))
            => /\ response'.kind = "deleted"
               /\ response'.success <=> (input[p].id \in ArticleIds)
               /\ input[p].id \notin { a.id : a \in articles' }
     /\ \A id \in 1..article_seq :
          id \notin ArticleIds => id \notin { a.id : a \in articles' }]_vars

\* one of two deleteArticle calls in flight for the same id has returned true, the
\* other is still to run its delete
FirstOfTwoDeletesReturned ==
  /\ response.kind = "deleted"
  /\ response.success
  /\ \E q \in Procs \ {response.proc} :
       /\ pc[q] = "delete_article"
       /\ input[q].id = response.input.id

\* C30 (the claim as stated): handleExport shows a success result only when
\* exportArticles returned success = true; when it returned success = false, or when
\* the call failed, the dialog shows a failure result.
DialogShowsWhatExportReturned ==
  [][(dialog.isExporting /\ ~dialog'.isExporting)
       => (dialog'.exportResult.success
             <=> \E a \in awaiting \ awaiting' :
                   /\ a.handler = "handleExport"
                   /\ a.answer[1].kind = "exported"
                   /\ a.answer[1].success)]_vars

====
